---------------------------- MODULE Spec2Model ----------------------------
(***************************************************************************)
(* A model of the localrun tunnel client (src/src/chunk-utils.ts and       *)
(* src/src/tunnel.ts).                                                     *)
(*                                                                         *)
(* Strings are sequences of UTF-16 code units, as in JavaScript.  A code   *)
(* unit is one of                                                          *)
(*   "a"        a plain ASCII character (1 UTF-8 byte)                     *)
(*   "q"        the double quote, "b" the backslash (1 byte, JSON-escaped) *)
(*   "c"        a BMP character of 3 UTF-8 bytes                           *)
(*   "H", "L"   a high / a low surrogate; "H","L" in a row is one code     *)
(*              point of 4 UTF-8 bytes, a lone surrogate is encoded by     *)
(*              TextEncoder as U+FFFD (3 bytes)                            *)
(*   "Q", "R"   the ASCII envelope that opens a serialized request /       *)
(*              response frame, up to the opening quote of its body        *)
(*   "u","d","8","0"   ASCII letters and digits of a \uXXXX escape ("c" is *)
(*              never produced by an escape: \udc00 is written d,k,0,0     *)
(*              with "k" for the hex digit c)                              *)
(*                                                                         *)
(* The byte sizes of the source (1 MiB ceiling, 768 KiB chunk budget) are  *)
(* kept in their ratio 4 : 3 and scaled down by ScaleUnit.                 *)
(***************************************************************************)
EXTENDS Integers, Sequences, FiniteSets, TLC

VARIABLES
    (* safeStringChunk applied on its own *)
    splitIn,      \* [str, maxBytes]: the arguments of the call
    splitOut,     \* the value returned, or NotCalled
    (* one frame through chunkMessage and receiveChunk *)
    frame,        \* the frame handed to chunkMessage
    outbox,       \* what chunkMessage returned, or NotCalled
    fed,          \* the chunk indices handed to receiveChunk so far
    inOrder,      \* they were handed over in index order
    earlier,      \* a call before the latest one returned a frame
    result,       \* what the latest receiveChunk call returned
    feedStart,    \* the clock when the first chunk was handed over
    (* the receiver and the clock *)
    chunks,       \* MessageChunker.chunks, in insertion order
    completed,    \* the assembly the latest receiveChunk call completed
    now,          \* Date.now()
    (* the request forwarder of one Tunnel *)
    websocket,    \* this.websocket: "null", or its readyState
    breaker,      \* consecutiveErrors, lastErrorTime, isCircuitOpen
    healthCheckCache,
    maxRetriesOption,  \* options.maxRetries
    req,          \* per request id: where its forwarder stands, what it wrote
    belief,       \* the breaker as its callers count it: errors in a row, time of the last
    lastCheck,    \* the latest isCircuitBreakerOpen() call: its answer, what the count says
    cacheLog,     \* what a watcher of the health cache has seen, or NotCalled without one
    (* the connection of one Tunnel *)
    session,      \* closed, tunnelInfo, the timers, the sockets, the events emitted
    (* the command line lr *)
    cli,          \* the --subdomain value, how far the run is, what it wrote, its exit code
    (* the local server *)
    origin        \* its answers to HEAD /health and HEAD / when they are fixed, or NotCalled

(* What is checked on its own: safeStringChunk, and the option check of lr *)
splitVars == <<splitIn, splitOut, cli, origin>>
feedVars  == <<frame, outbox, fed, inOrder, earlier, result, feedStart>>
chunkerVars == <<splitIn, splitOut, cli, origin, frame, outbox, fed, inOrder, earlier, result,
                 feedStart, chunks, completed>>
fwdVars == <<websocket, breaker, healthCheckCache, maxRetriesOption, req, belief,
             lastCheck, cacheLog, session>>
vars == <<splitIn, splitOut, frame, outbox, fed, inOrder, earlier, result,
          feedStart, chunks, completed, now, websocket, breaker, healthCheckCache,
          maxRetriesOption, req, belief, lastCheck, cacheLog, session, cli,
          origin>>

---------------------------------------------------------------------------
(* Bounds *)

ScaleUnit == 2        \* bytes that stand for 256 KiB
MaxBodyLen == 5       \* code points in a frame body
MaxSplitLen == 4      \* code units in a string given to safeStringChunk alone
MaxBudget == 5        \* the largest maxBytes given to safeStringChunk alone
StepMs == 10000       \* the clock advances in steps of this many ms
EpochStart == 100000  \* Date.now() when the process starts
MaxTicks == 4         \* clock steps taken while chunk frames arrive
MaxIndex == 1         \* the largest chunkIndex of an arriving chunk frame
MaxTotal == 2         \* the largest totalChunks of an arriving chunk frame
MaxReceived == 3      \* arrivals counted by one assembly
FwdStepMs == 30000    \* the clock step while requests are forwarded
MaxFwdTicks == 2      \* clock steps taken while requests are forwarded
MaxSseChunks == 1     \* data events of one SSE stream
MaxErrors == 7        \* errors recorded in a row on a breaker called directly
HealthStepMs == 2500  \* the clock step while the health cache is watched
MaxHealthTicks == 5   \* clock steps taken while the health cache is watched
MaxOpens == 2         \* open() calls on one Tunnel
MaxCloses == 2        \* close() calls on one Tunnel
MaxWsOpens == 2       \* sockets of one Tunnel that open
ShutdownStepMs == 2500    \* the clock step while the Tunnel shuts down
MaxShutdownTicks == 3     \* clock steps taken while the Tunnel shuts down
MaxPings == 2             \* ping frames and pong frames in each direction
MaxKept == 2              \* the largest cap given to cleanup
MaxCleanupTicks == 2      \* clock steps taken while cleanup is called
MaxSubdomainLen == 11     \* characters of a --subdomain value
MaxBreakerEvents == 4     \* breaker events noted

(* Program constants *)

MAX_MESSAGE_SIZE == 4 * ScaleUnit
CHUNK_SIZE == 3 * ScaleUnit
CLEANUP_MAX_AGE == 30000
CLEANUP_MAX_ENTRIES == 100

NotCalled == [called |-> FALSE]
Null == [null |-> TRUE]

Min(x, y) == IF x <= y THEN x ELSE y

---------------------------------------------------------------------------
(* TextEncoder.encode(s).length *)

IsPairHigh(s, i) == s[i] = "H" /\ i < Len(s) /\ s[i + 1] = "L"
IsPairLow(s, i) == s[i] = "L" /\ i > 1 /\ s[i - 1] = "H"

ByteAt(s, i) ==
    CASE s[i] = "H" -> IF IsPairHigh(s, i) THEN 4 ELSE 3
      [] s[i] = "L" -> IF IsPairLow(s, i) THEN 0 ELSE 3
      [] s[i] = "c" -> 3
      [] OTHER -> 1

RECURSIVE BytesUpTo(_, _)
BytesUpTo(s, n) == IF n = 0 THEN 0 ELSE BytesUpTo(s, n - 1) + ByteAt(s, n)

Utf8Len(s) == BytesUpTo(s, Len(s))

(* str.substring(from, to), 0-based, end exclusive *)
Substring(s, from, to) == SubSeq(s, from + 1, to)

---------------------------------------------------------------------------
(* safeStringChunk, chunk-utils.ts 11-58 *)

RECURSIVE BinarySearch(_, _, _, _, _, _)
BinarySearch(str, currentIndex, maxBytes, left, right, bestLength) ==
    IF left > right THEN bestLength
    ELSE LET mid == (left + right) \div 2
             encoded == Utf8Len(Substring(str, currentIndex, currentIndex + mid))
         IN  IF encoded <= maxBytes
             THEN BinarySearch(str, currentIndex, maxBytes, mid + 1, right, mid)
             ELSE BinarySearch(str, currentIndex, maxBytes, left, mid - 1, bestLength)

BestLength(str, currentIndex, maxBytes) ==
    BinarySearch(str, currentIndex, maxBytes, 1,
                 Min(Len(str) - currentIndex, maxBytes), 1)

(* The loop of safeStringChunk from currentIndex on: [threw, chunks]. *)
RECURSIVE SplitFrom(_, _, _)
SplitFrom(str, currentIndex, maxBytes) ==
    IF currentIndex >= Len(str) THEN [threw |-> FALSE, chunks |-> <<>>]
    ELSE LET remaining == Substring(str, currentIndex, Len(str))
         IN  IF Utf8Len(remaining) <= maxBytes
             THEN [threw |-> FALSE, chunks |-> <<remaining>>]
             ELSE LET bestLength == BestLength(str, currentIndex, maxBytes)
                      chunk == Substring(str, currentIndex, currentIndex + bestLength)
                      rest == SplitFrom(str, currentIndex + bestLength, maxBytes)
                  IN  IF bestLength = 0 \/ rest.threw
                      THEN [threw |-> TRUE, chunks |-> <<>>]
                      ELSE [threw |-> FALSE, chunks |-> <<chunk>> \o rest.chunks]

safeStringChunk(str, maxBytes) == SplitFrom(str, 0, maxBytes)

RECURSIVE Join(_)
Join(ss) == IF ss = <<>> THEN <<>> ELSE Head(ss) \o Join(Tail(ss))

---------------------------------------------------------------------------
(* JSON.stringify and JSON.parse of a frame *)

EscapeUnit(s, i) ==
    CASE s[i] = "q" -> <<"b", "q">>
      [] s[i] = "b" -> <<"b", "b">>
      [] s[i] = "H" /\ ~IsPairHigh(s, i) -> <<"b", "u", "d", "8", "0", "0">>
      [] s[i] = "L" /\ ~IsPairLow(s, i) -> <<"b", "u", "d", "k", "0", "0">>
      [] OTHER -> <<s[i]>>

RECURSIVE EscapeUpTo(_, _)
EscapeUpTo(s, n) == IF n = 0 THEN <<>> ELSE EscapeUpTo(s, n - 1) \o EscapeUnit(s, n)

(* The characters of a JSON string literal between its quotes. *)
Escape(s) == EscapeUpTo(s, Len(s))

Envelope(type) ==
    CASE type = "request" -> "Q" [] type = "response" -> "R" [] OTHER -> "C"

(* JSON.stringify(message): the envelope up to the opening quote of the    *)
(* body (of the chunk text, for a chunk frame), the escaped text, the      *)
(* closing quote.                                                          *)
JSONstringify(message) ==
    <<Envelope(message.type)>>
    \o Escape(IF message.type = "chunk" THEN message.data.chunk ELSE message.body)
    \o <<"q">>

SyntaxError == [error |-> "SyntaxError"]

(* The string literal of s that starts at position i, read up to its       *)
(* closing quote, which has to be the last character of s.                 *)
RECURSIVE ParseLiteral(_, _, _)
ParseLiteral(s, i, acc) ==
    IF i > Len(s) THEN SyntaxError
    ELSE CASE s[i] = "q" -> IF i = Len(s) THEN [error |-> "none", value |-> acc]
                            ELSE SyntaxError
           [] s[i] = "b" ->
                IF i + 1 > Len(s) THEN SyntaxError
                ELSE CASE s[i + 1] = "q" -> ParseLiteral(s, i + 2, Append(acc, "q"))
                       [] s[i + 1] = "b" -> ParseLiteral(s, i + 2, Append(acc, "b"))
                       [] s[i + 1] = "u" ->
                            IF i + 5 > Len(s) THEN SyntaxError
                            ELSE LET hex == SubSeq(s, i + 2, i + 5)
                                 IN  CASE hex = <<"d", "8", "0", "0">> ->
                                            ParseLiteral(s, i + 6, Append(acc, "H"))
                                       [] hex = <<"d", "k", "0", "0">> ->
                                            ParseLiteral(s, i + 6, Append(acc, "L"))
                                       [] OTHER -> SyntaxError
                       [] OTHER -> SyntaxError
           [] OTHER -> ParseLiteral(s, i + 1, Append(acc, s[i]))

(* JSON.parse(s): the frame, or SyntaxError when s is no serialized frame. *)
JSONparse(s) ==
    IF Len(s) < 2 \/ s[1] \notin {"Q", "R"} THEN SyntaxError
    ELSE LET lit == ParseLiteral(s, 2, <<>>)
         IN  IF lit.error = "none"
             THEN [error |-> "none",
                   value |-> [type |-> IF s[1] = "Q" THEN "request" ELSE "response",
                              body |-> lit.value]]
             ELSE SyntaxError

---------------------------------------------------------------------------
(* MessageChunker, chunk-utils.ts 60-290 *)

needsChunking(message) == Utf8Len(message) > MAX_MESSAGE_SIZE

ChunkFrameOneBased(messageId, i, totalChunks, chunk, originalType) ==
    [type |-> "chunk",
     data |-> [messageId |-> messageId, chunkIndex |-> i + 1,
               totalChunks |-> totalChunks, chunk |-> chunk,
               originalType |-> originalType]]

ChunkFrame(messageId, i, totalChunks, chunk, originalType) ==
    [type |-> "chunk",
     data |-> [messageId |-> messageId, chunkIndex |-> i,
               totalChunks |-> totalChunks, chunk |-> chunk,
               originalType |-> originalType]]

(* chunkMessage: [threw, msgs] *)
chunkMessage(originalMessage, messageId) ==
    LET messageString == JSONstringify(originalMessage)
    IN  IF ~needsChunking(messageString)
        THEN [threw |-> FALSE, msgs |-> <<originalMessage>>]
        ELSE LET split == safeStringChunk(messageString, CHUNK_SIZE)
                 totalChunks == Len(split.chunks)
             IN  IF split.threw THEN [threw |-> TRUE, msgs |-> <<>>]
                 ELSE [threw |-> FALSE,
                       msgs |-> [i \in 1..totalChunks |->
                                   ChunkFrame(messageId, i - 1, totalChunks,
                                              split.chunks[i], originalMessage.type)]]

(* The table is the Map in insertion order; an entry's array is its length *)
(* and its filled slots (a JavaScript array may have holes).               *)
Ids(table) == {table[k].id : k \in 1..Len(table)}
PosOf(table, id) == CHOOSE k \in 1..Len(table) : table[k].id = id
Without(table, gone) == SelectSeq(table, LAMBDA e : e.id \notin gone)

(* array.join('') *)
RECURSIVE JoinSlots(_, _)
JoinSlots(arr, n) ==
    IF n = 0 THEN <<>>
    ELSE JoinSlots(arr, n - 1) \o
         (IF (n - 1) \in DOMAIN arr.slot THEN arr.slot[n - 1] ELSE <<>>)

ArrayJoin(arr) == JoinSlots(arr, arr.length)

ArrayPush(arr, i, chunk) ==
    LET at == Cardinality(DOMAIN arr.slot)
    IN  [length |-> IF at + 1 > arr.length THEN at + 1 ELSE arr.length,
         slot |-> [j \in DOMAIN arr.slot \cup {at} |->
                     IF j = at THEN chunk ELSE arr.slot[j]]]

(* array[i] = chunk *)
ArrayStore(arr, i, chunk) ==
    [length |-> IF i + 1 > arr.length THEN i + 1 ELSE arr.length,
     slot |-> [j \in DOMAIN arr.slot \cup {i} |-> IF j = i THEN chunk ELSE arr.slot[j]]]

ExpiredAtAge(e, t, maxAge) == t - e.createdAt >= maxAge

Expired(e, t, maxAge) == t - e.createdAt > maxAge

cleanupByAgeOnly(table, t, maxAge, maxEntries) ==
    LET entriesToRemove == {table[k].id : k \in {j \in 1..Len(table) :
                                                   Expired(table[j], t, maxAge)}}
    IN  [table |-> Without(table, entriesToRemove),
         removedCount |-> Cardinality(entriesToRemove)]

(* cleanup(maxAge, maxEntries) at clock t: [table, removedCount] *)
cleanup(table, t, maxAge, maxEntries) ==
    LET entriesToRemove == {table[k].id : k \in {j \in 1..Len(table) :
                                                   Expired(table[j], t, maxAge)}}
        kept == Without(table, entriesToRemove)
        excessCount == IF Len(kept) > maxEntries THEN Len(kept) - maxEntries ELSE 0
        (* position in the stable sort by createdAt *)
        Rank(k) == Cardinality({j \in 1..Len(kept) :
                       \/ kept[j].createdAt < kept[k].createdAt
                       \/ kept[j].createdAt = kept[k].createdAt /\ j < k})
        oldest == {kept[k].id : k \in {j \in 1..Len(kept) : Rank(j) < excessCount}}
    IN  [table |-> Without(kept, oldest),
         removedCount |-> Cardinality(entriesToRemove) + Cardinality(oldest)]

Counted(info, chunkIndex) == info.receivedChunks + 1

(* receiveChunk(chunkData) at clock t; doCleanup is Math.random() < 0.1.   *)
(* [table, result]: the table afterwards and the frame returned, or Null.  *)
receiveChunk(table, chunkData, doCleanup, t) ==
    LET swept == IF doCleanup
                 THEN cleanup(table, t, CLEANUP_MAX_AGE, CLEANUP_MAX_ENTRIES).table
                 ELSE table
        known == IF chunkData.messageId \in Ids(swept) THEN swept
                 ELSE Append(swept,
                        [id |-> chunkData.messageId,
                         chunks |-> [length |-> chunkData.totalChunks, slot |-> <<>>],
                         totalChunks |-> chunkData.totalChunks,
                         originalType |-> chunkData.originalType,
                         receivedChunks |-> 0,
                         createdAt |-> t])
        k == PosOf(known, chunkData.messageId)
        messageInfo == [known[k] EXCEPT
                          !.chunks = ArrayStore(@, chunkData.chunkIndex, chunkData.chunk),
                          !.receivedChunks = Counted(known[k], chunkData.chunkIndex)]
    IN  IF messageInfo.receivedChunks = chunkData.totalChunks
        THEN LET parsed == JSONparse(ArrayJoin(messageInfo.chunks))
             IN  [table |-> Without(known, {chunkData.messageId}),
                  result |-> IF parsed.error = "none" THEN parsed.value ELSE Null]
        ELSE [table |-> [known EXCEPT ![k] = messageInfo], result |-> Null]

---------------------------------------------------------------------------
(* Tunnel: circuit breaker, tunnel.ts 27-32 and 1239-1292 *)

circuitBreakerThreshold == 5
circuitBreakerCooldown == 30000
healthCheckCacheTTL == 10000
DefaultMaxRetries == 2

ClosedBreaker == [consecutiveErrors |-> 0, lastErrorTime |-> 0, isCircuitOpen |-> FALSE]

resetFlagOnly(b) == [b EXCEPT !.isCircuitOpen = FALSE]

resetCircuitBreaker(b) == ClosedBreaker

CooldownReached(b, t) == t - b.lastErrorTime >= circuitBreakerCooldown

CooldownPassed(b, t) == t - b.lastErrorTime > circuitBreakerCooldown

(* isCircuitBreakerOpen() at clock t: [open, after] *)
isCircuitBreakerOpen(b, t) ==
    IF ~b.isCircuitOpen THEN [open |-> FALSE, after |-> b]
    ELSE IF CooldownPassed(b, t)
         THEN [open |-> FALSE, after |-> resetCircuitBreaker(b)]
         ELSE [open |-> TRUE, after |-> b]

Exceeded(count) == count > circuitBreakerThreshold

Reached(count) == count >= circuitBreakerThreshold

recordError(b, t) ==
    [consecutiveErrors |-> b.consecutiveErrors + 1,
     lastErrorTime |-> t,
     isCircuitOpen |-> b.isCircuitOpen \/ Reached(b.consecutiveErrors + 1)]

EmitsWhenReached(b) == Reached(b.consecutiveErrors + 1)

(* recordError() emits 'circuit-breaker-open' *)
recordErrorEmits(b) == Reached(b.consecutiveErrors + 1) /\ ~b.isCircuitOpen

(* resetCircuitBreaker() emits 'circuit-breaker-closed': wasOpen *)
resetEmits(b) == b.isCircuitOpen

recordSuccessWhenOpen(b) ==
    IF b.isCircuitOpen THEN resetCircuitBreaker(b) ELSE b

recordSuccess(b) ==
    IF b.consecutiveErrors > 0 \/ b.isCircuitOpen THEN resetCircuitBreaker(b) ELSE b

(* The breaker as a caller counts it: the errors recorded in a row since   *)
(* the last success or reset, and the time of the last one.                *)
NoErrors == [run |-> 0, at |-> 0]
CountsOpen(g, t) == g.run >= 5 /\ t - g.at <= 30000
CountsExpired(g, t) == g.run >= 5 /\ t - g.at > 30000
BeliefAfterCheck(g, t) == IF CountsExpired(g, t) THEN NoErrors ELSE g
BeliefAfterError(g, t) == [run |-> g.run + 1, at |-> t]

---------------------------------------------------------------------------
(* Tunnel: the forwarder of one request, tunnel.ts 283-402 and 549-941 *)

RequestIds == {"r1", "r2"}

(* Under SpecFwd one request is in the tunnel at a time. *)
OneAtATime == {"r1"}

MaxRetriesOptions == {0, 1, 3}

(* options.maxRetries || 2 *)
maxRetries == IF maxRetriesOption = 0 THEN DefaultMaxRetries ELSE maxRetriesOption

ConnectionErrors == {"ECONNREFUSED", "ENOTFOUND", "ECONNRESET"}
NetworkErrors == {"ENETUNREACH", "EHOSTUNREACH"}
(* error.message of a transport error names its code; EPIPE stands for the *)
(* codes the forwarder does not retry.                                     *)
ErrorCodes == ConnectionErrors \cup NetworkErrors \cup {"EPIPE"}

(* The words of an Error's message that handleProxyRequest looks for. *)
SocketHangUp == {}
CertificateError == {}
TimeoutMessage == {"timeout"}
GateMessage == {"ECONNREFUSED"}

NoResponse == [status |-> 0]

(* The error response built at tunnel.ts 353-398. *)
ErrorResponse(words) ==
    CASE "timeout" \in words -> [status |-> 504, errorType |-> "timeout"]
      [] "ECONNREFUSED" \in words -> [status |-> 502, errorType |-> "connection-refused"]
      [] "ENOTFOUND" \in words -> [status |-> 502, errorType |-> "host-not-found"]
      [] "ECONNRESET" \in words -> [status |-> 502, errorType |-> "connection-reset"]
      [] "ENETUNREACH" \in words \/ "EHOSTUNREACH" \in words ->
            [status |-> 502, errorType |-> "network-unreachable"]
      [] OTHER -> [status |-> 500, errorType |-> "unknown-error"]

(* The response built at tunnel.ts 293-308; Math.ceil(cooldown / 1000). *)
BreakerResponse ==
    [status |-> 503, errorType |-> "circuit-breaker-open",
     retryAfter |-> (circuitBreakerCooldown + 999) \div 1000]

IdleRequest ==
    [pc |-> "idle", isSSE |-> FALSE, retryCount |-> 0, settled |-> FALSE,
     checkPath |-> "null", checkNow |-> 0, mainInFlight |-> FALSE,
     rootInFlight |-> 0, lateRoot |-> 0, sseChunks |-> 0,
     (* what an observer of this request has seen *)
     gate |-> "none", wsStayed |-> TRUE, frames |-> <<>>,
     response |-> NoResponse, dialled |-> FALSE, probed |-> FALSE, dials |-> 0,
     errorsBefore |-> 0, outcome |-> "none", attemptEnds |-> {},
     consulted |-> {}, unhealthyAt |-> {}]

(* The connection of the Tunnel (tunnel.ts 14-25).  The handlers of a     *)
(* socket work on `this`, never on the socket that emitted the event: the  *)
(* sockets, and the timers, that no field holds any more are counted.      *)

maxReconnectAttempts == 10
maxReconnectDelay == 30000

(* reconnectBackoffMultiplier = 1.5, as a fraction *)
reconnectBackoffMultiplier == [num |-> 3, den |-> 2]

ReadyStates == {"CONNECTING", "OPEN", "CLOSING"}

IdleSession ==
    [closed |-> FALSE,
     tunnelInfo |-> "null",
     reconnectAttempts |-> 0,
     reconnectTimeout |-> "null",     \* "null", or the timer: "pending" / "fired"
     keepAliveInterval |-> "null",    \* "null", or the interval: "armed"
     strayTimeouts |-> 0,             \* pending reconnect timers that no field holds
     strayIntervals |-> 0,            \* armed keepalive intervals that no field holds
     straySockets |-> [state \in ReadyStates |-> 0],
     registering |-> 0,               \* initTunnel() calls that have not settled
     starting |-> 0,                  \* pending 10 ms timers of open()
     closing |-> 0,                   \* pending 0 ms timers of close()
     opens |-> 0,                     \* open() calls so far
     closes |-> 0,                    \* close() calls so far
     urlEvents |-> 0,                 \* 'url' events emitted
     closeEvents |-> 0,               \* 'close' events emitted
     fatalErrors |-> 0,               \* 'error' events: Maximum reconnection attempts reached
     socketError |-> FALSE,           \* an 'error' event of a socket was passed on
     delay |-> NotCalled,             \* the delay of the latest reconnect timer
     rejects |-> 0,                   \* open() promises rejected
     shutdown |-> "none",             \* gracefulShutdown(): "none", "waiting", "resolved"
     startTime |-> 0,                 \* startTime of gracefulShutdown()
     got |-> [ping |-> 0, pong |-> 0],    \* ping / pong frames the message handler got
     sent |-> [ping |-> 0, pong |-> 0]]   \* ping / pong frames written to the socket

RECURSIVE Pow(_, _)
Pow(base, exponent) == IF exponent <= 0 THEN 1 ELSE base * Pow(base, exponent - 1)

(* A delay is kept exactly, as a whole number of units: with at most ten   *)
(* attempts counted, 1.5 ** (attempts - 1) is a multiple of 1 / 2 ** 9.    *)
DelayUnitsPerMs == Pow(reconnectBackoffMultiplier.den, maxReconnectAttempts - 1)

(* baseDelay * multiplier ** (attempts - 1) *)
backoffDelay(baseDelay, attempts, multiplier) ==
    baseDelay * Pow(multiplier.num, attempts - 1)
              * Pow(multiplier.den, maxReconnectAttempts - attempts)

UncappedBy(delay, most) == delay

(* Math.min(backoffDelay, maxReconnectDelay) *)
CappedBy(delay, most) == Min(delay, most * DelayUnitsPerMs)

(* The connection c: the fields s and the readyState ws of the socket that *)
(* this.websocket holds.  A socket the field lets go of stays as it is.    *)
LetGo(c) ==
    IF c.ws = "null" THEN c
    ELSE [c EXCEPT !.ws = "null", !.s.straySockets[c.ws] = @ + 1]

(* clearTimeout(this.reconnectTimeout); this.reconnectTimeout = null *)
ClearReconnect(c) == [c EXCEPT !.s.reconnectTimeout = "null"]

(* clearInterval(this.keepAliveInterval); this.keepAliveInterval = null *)
ClearKeepAlive(c) == [c EXCEPT !.s.keepAliveInterval = "null"]

(* this.reconnectTimeout = setTimeout(...): a timer the field held and     *)
(* that is still pending goes on without the field.                        *)
ArmReconnect(c, delay) ==
    [c EXCEPT !.s.strayTimeouts = IF c.s.reconnectTimeout = "pending" THEN @ + 1 ELSE @,
              !.s.reconnectTimeout = "pending",
              !.s.delay = delay]

(* this.keepAliveInterval = setInterval(...) *)
ArmKeepAlive(c) ==
    [c EXCEPT !.s.strayIntervals = IF c.s.keepAliveInterval = "armed" THEN @ + 1 ELSE @,
              !.s.keepAliveInterval = "armed"]

ConnectWhenRegistered(c) ==
    IF c.s.tunnelInfo = "null" THEN c
    ELSE [LetGo(ClearKeepAlive(c)) EXCEPT !.ws = "CONNECTING"]

(* connectWebSocket() *)
ConnectWebSocket(c) ==
    IF c.s.closed \/ c.s.tunnelInfo = "null" THEN c
    ELSE [LetGo(ClearKeepAlive(c)) EXCEPT !.ws = "CONNECTING"]

(* websocket.on('open') *)
OnOpen(c) ==
    ArmKeepAlive(ClearReconnect(
        [c EXCEPT !.s.reconnectAttempts = 0,
                  !.s.urlEvents = IF c.s.tunnelInfo # "null" THEN @ + 1 ELSE @]))

(* close(), for the connection: the timers, the socket and the event *)
Close(c) ==
    LET called == [c EXCEPT !.s.closed = TRUE, !.s.closes = @ + 1]
        cleared == ClearKeepAlive(ClearReconnect(called))
        scheduled == IF cleared.ws \in {"OPEN", "CONNECTING"}
                     THEN [cleared EXCEPT !.s.closing = @ + 1] ELSE cleared
    IN  [LetGo(scheduled) EXCEPT !.s.closeEvents = @ + 1]

(* The reconnect branch of the close handler keeps counting. *)
AttemptsLeftOrLast(s) == s.reconnectAttempts <= maxReconnectAttempts

AttemptsLeft(s) == s.reconnectAttempts < maxReconnectAttempts

(* websocket.on('close') *)
OnClose(c, baseDelay) ==
    LET gone == ClearKeepAlive(LetGo(c))
        attempts == c.s.reconnectAttempts + 1
    IN  IF ~c.s.closed /\ AttemptsLeft(c.s)
        THEN ArmReconnect([gone EXCEPT !.s.reconnectAttempts = attempts],
                          CappedBy(backoffDelay(baseDelay, attempts,
                                                reconnectBackoffMultiplier),
                                   maxReconnectDelay))
        ELSE IF c.s.reconnectAttempts >= maxReconnectAttempts
             THEN [gone EXCEPT !.s.fatalErrors = @ + 1]
             ELSE [gone EXCEPT !.s.closeEvents = @ + 1]

(* sendPing(): a ping frame goes out when the socket is there and open *)
sendPing(c) == IF c.ws = "OPEN" THEN [c EXCEPT !.s.sent.ping = @ + 1] ELSE c

(* sendPong(): a pong frame goes out when the socket is there and open *)
sendPong(c) == IF c.ws = "OPEN" THEN [c EXCEPT !.s.sent.pong = @ + 1] ELSE c

AnswerAnyFrame(c, type) == sendPong(c)

(* websocket.on('message') for the frames of the keepalive: a ping is      *)
(* answered, a pong is logged.                                             *)
OnMessage(c, type) == IF type = "ping" THEN sendPong(c) ELSE c

NoCache == [isHealthy |-> FALSE, lastCheck |-> 0, healthPath |-> "null"]

FwdIdle ==
    /\ websocket = "null"
    /\ breaker = ClosedBreaker
    /\ healthCheckCache = NoCache
    /\ maxRetriesOption = 0
    /\ req = [r \in RequestIds |-> IdleRequest]
    /\ belief = NoErrors
    /\ lastCheck = NotCalled
    /\ cacheLog = NotCalled
    /\ session = IdleSession

(* The forwarder works on a world w: its request q, and the breaker b, the *)
(* health cache h, the callers' count g and the cache watcher's notes c    *)
(* that all requests share.                                                *)

(* sendResponse, and the sends of handleSSERequest: one frame, whole or as *)
(* one chunk sequence, when the socket is there and open.                  *)
Send(w, kind, response) ==
    IF websocket = "OPEN"
    THEN [w EXCEPT !.q.frames = Append(@, kind),
                   !.q.response = IF kind = "response" THEN response ELSE @]
    ELSE w

RespondAlways(w, isError, response) ==
    Send([w EXCEPT
            !.q.settled = TRUE,
            !.q.outcome = IF isError THEN "failure" ELSE "success",
            !.b = IF isError THEN recordError(w.b, now) ELSE recordSuccess(w.b),
            !.g = IF isError THEN BeliefAfterError(w.g, now) ELSE NoErrors],
         "response", response)

(* handleProxyRequest after its await: the try branch records a success   *)
(* and sends the origin's response (nothing more for an SSE request), the  *)
(* catch branch records an error and sends the error response.             *)
Continue(w, isError, response) ==
    LET recorded == [w EXCEPT
            !.q.settled = TRUE,
            !.q.outcome = IF isError THEN "failure" ELSE "success",
            !.b = IF isError THEN recordError(w.b, now) ELSE recordSuccess(w.b),
            !.g = IF isError THEN BeliefAfterError(w.g, now) ELSE NoErrors]
    IN  IF w.q.isSSE /\ ~isError THEN recorded
        ELSE Send(recorded, "response", response)

SettleAgain(w, isError, response) == Continue(w, isError, response)

(* A promise settles once: later resolve / reject calls do nothing. *)
Settle(w, isError, response) ==
    IF w.q.settled THEN w ELSE Continue(w, isError, response)

Reject(w, words) == Settle(w, TRUE, ErrorResponse(words))
Resolve(w, status) == Settle(w, FALSE, [status |-> status, errorType |-> "none"])

(* forwardToLocalServer from the promise executor on (tunnel.ts 583-904):  *)
(* the certificates are read, then the origin is dialled.                  *)
StartDial(w, certsReadable) ==
    IF certsReadable
    THEN [w EXCEPT !.q.pc = "dial", !.q.dialled = TRUE, !.q.dials = @ + 1]
    ELSE [Reject(w, CertificateError) EXCEPT !.q.pc = "done"]

(* The health gate of forwardToLocalServer throws (tunnel.ts 565-569 and   *)
(* 575-579).                                                               *)
GateFails(w) ==
    [Reject([w EXCEPT !.q.unhealthyAt = @ \cup {w.q.retryCount}], GateMessage)
        EXCEPT !.q.pc = "done"]

(* The watcher of the health cache notes when a verdict is written, and   *)
(* on each check whether the verdict was written less / more than 10 s     *)
(* ago and whether the check went to the network; and of the last probe    *)
(* against "/" that has resolved, how the request ended (a status, or 0    *)
(* for an error or a timeout), the verdict and the probe path kept.        *)
Watching == [writtenAt |-> 0, checks |-> 0, fresh |-> FALSE, stale |-> FALSE,
             network |-> FALSE, slash |-> NotCalled]

NotesWrite(c, t) == IF c = NotCalled THEN c ELSE [c EXCEPT !.writtenAt = t]

NotesCheck(c, t, network) ==
    IF c = NotCalled THEN c
    ELSE [c EXCEPT !.checks = Min(@ + 1, 2),
                   !.fresh = c.writtenAt > 0 /\ t - c.writtenAt < 10000,
                   !.stale = c.writtenAt > 0 /\ t - c.writtenAt > 10000,
                   !.network = network]

NotesSlash(w, status, isHealthy) ==
    IF w.c = NotCalled THEN w
    ELSE [w EXCEPT !.c.slash = [status |-> status, isHealthy |-> isHealthy,
                                healthPath |-> w.h.healthPath]]

CacheValid(h, t) == h.lastCheck > 0 /\ t - h.lastCheck < healthCheckCacheTTL

(* checkLocalServerConnection once performHealthCheck has resolved with    *)
(* isHealthy, and the forwarder's health gate after it.                    *)
ProbeResolved(w, isHealthy, certsReadable) ==
    LET cached == [w EXCEPT
            !.h = [isHealthy |-> isHealthy, lastCheck |-> w.q.checkNow,
                   healthPath |-> w.h.healthPath],
            !.c = NotesWrite(@, now),
            !.q.checkPath = "null",
            !.q.checkNow = 0,
            !.q.mainInFlight = FALSE,
            !.q.lateRoot = @ + w.q.rootInFlight,
            !.q.rootInFlight = 0]
    IN  IF isHealthy THEN StartDial(cached, certsReadable)
        ELSE GateFails(cached)

(* checkLocalServerConnection up to its first await, and the health gate   *)
(* when the cache answers.                                                 *)
CheckConnection(w, certsReadable) ==
    IF CacheValid(w.h, now)
    THEN LET seen == [w EXCEPT !.q.consulted = @ \cup {w.q.retryCount},
                               !.c = NotesCheck(@, now, FALSE)]
         IN  IF w.h.isHealthy THEN StartDial(seen, certsReadable) ELSE GateFails(seen)
    ELSE [w EXCEPT !.q.pc = "probing",
                   !.c = NotesCheck(@, now, TRUE),
                   !.q.consulted = @ \cup {w.q.retryCount},
                   !.q.checkPath = IF w.h.healthPath = "null" THEN "/health"
                                   ELSE w.h.healthPath,
                   !.q.checkNow = now,
                   !.q.mainInFlight = TRUE,
                   !.q.probed = TRUE]

ForwardChecked(w, retryCount, certsReadable) ==
    CheckConnection([w EXCEPT !.q.retryCount = retryCount], certsReadable)

(* forwardToLocalServer(request, retryCount) up to its first suspension. *)
Forward(w, retryCount, certsReadable) ==
    LET at == [w EXCEPT !.q.retryCount = retryCount]
    IN  IF retryCount = 0 \/ retryCount >= 3
        THEN CheckConnection(at, certsReadable)
        ELSE StartDial(at, certsReadable)

(* resolve of performHealthCheck: the first call counts. *)
ResolveProbe(w, isHealthy, certsReadable) ==
    IF w.q.pc = "probing" THEN ProbeResolved(w, isHealthy, certsReadable) ELSE w

(* tryRootPath is called, or the probe resolves unhealthy (tunnel.ts       *)
(* 471-477, 484-489, 497-502).                                             *)
FallBackOrFail(w, certsReadable) ==
    IF w.q.checkPath = "/health" /\ w.h.healthPath = "null"
    THEN [w EXCEPT !.q.rootInFlight = @ + 1, !.q.mainInFlight = FALSE]
    ELSE ResolveProbe(w, FALSE, certsReadable)

---------------------------------------------------------------------------
(* Inputs *)

CodePoints == {"a", "q", "c", "P"}

(* A sequence of code points as code units: "P" is a surrogate pair. *)
RECURSIVE Units(_)
Units(cps) ==
    IF cps = <<>> THEN <<>>
    ELSE (IF Head(cps) = "P" THEN <<"H", "L">> ELSE <<Head(cps)>>) \o Units(Tail(cps))

Bodies == {Units(cps) : cps \in UNION {[1..n -> CodePoints] : n \in 0..MaxBodyLen}}

Frames == [type : {"request", "response"}, body : Bodies]

CodeUnits == {"a", "q", "c", "H", "L"}

SplitStrings == UNION {[1..n -> CodeUnits] : n \in 0..MaxSplitLen}

TheMessageId == "m1"

---------------------------------------------------------------------------
(* SpecSplit: safeStringChunk on every short string and small budget *)

SplitIdle ==
    /\ splitIn = NotCalled /\ splitOut = NotCalled /\ cli = NotCalled
    /\ origin = NotCalled
FeedIdle ==
    /\ frame = NotCalled /\ outbox = NotCalled /\ fed = {} /\ inOrder = TRUE
    /\ earlier = FALSE /\ result = NotCalled /\ feedStart = 0

InitSplit ==
    /\ splitIn \in [str : SplitStrings, maxBytes : 0..MaxBudget]
    /\ splitOut = NotCalled
    /\ cli = NotCalled
    /\ origin = NotCalled
    /\ FeedIdle
    /\ chunks = <<>>
    /\ completed = NotCalled
    /\ now = EpochStart
    /\ FwdIdle

CallSplit ==
    /\ splitOut = NotCalled
    /\ splitOut' = safeStringChunk(splitIn.str, splitIn.maxBytes)
    /\ UNCHANGED <<splitIn, cli, origin, feedVars, chunks, completed, now, fwdVars>>

NextSplit == CallSplit

SpecSplit == InitSplit /\ [][NextSplit]_vars

---------------------------------------------------------------------------
(* SpecChunk: one frame through chunkMessage, its chunks through           *)
(* receiveChunk of a fresh MessageChunker in any order, each chunk once,   *)
(* within the retention time of an assembly.                               *)

InitChunk ==
    /\ SplitIdle
    /\ frame \in Frames
    /\ outbox = NotCalled
    /\ fed = {} /\ inOrder = TRUE /\ earlier = FALSE /\ result = NotCalled
    /\ feedStart = 0
    /\ chunks = <<>>
    /\ completed = NotCalled
    /\ now = EpochStart
    /\ FwdIdle

CallChunkMessage ==
    /\ outbox = NotCalled
    /\ outbox' = chunkMessage(frame, TheMessageId)
    /\ UNCHANGED <<splitVars, frame, fed, inOrder, earlier, result, feedStart,
                   chunks, completed, now, fwdVars>>

IsChunked(out) == out # NotCalled /\ ~out.threw /\ Len(out.msgs) > 1

Feed(i) ==
    /\ IsChunked(outbox)
    /\ i \in 1..Len(outbox.msgs)
    /\ (i - 1) \notin fed
    /\ \E doCleanup \in BOOLEAN :
         \E r \in {receiveChunk(chunks, outbox.msgs[i].data, doCleanup, now)} :
             /\ chunks' = r.table
             /\ result' = r.result
    /\ fed' = fed \cup {i - 1}
    /\ inOrder' = (inOrder /\ fed = 0..(i - 2))
    /\ earlier' = (earlier \/ (result # NotCalled /\ result # Null))
    /\ feedStart' = IF fed = {} THEN now ELSE feedStart
    /\ UNCHANGED <<splitVars, frame, outbox, completed, now, fwdVars>>

TickFeed ==
    /\ IsChunked(outbox)
    /\ fed # {}
    /\ Cardinality(fed) < Len(outbox.msgs)
    /\ now + StepMs - feedStart <= CLEANUP_MAX_AGE
    /\ now' = now + StepMs
    /\ UNCHANGED <<splitVars, feedVars, chunks, completed, fwdVars>>

NextChunk ==
    \/ CallChunkMessage
    \/ \E i \in 1..(4 * MaxBodyLen) : Feed(i)
    \/ TickFeed

SpecChunk == InitChunk /\ [][NextChunk]_vars

---------------------------------------------------------------------------
(* SpecAsm: chunk frames of any content arrive at one MessageChunker, in   *)
(* any order, any number of times, while the clock advances.               *)

MessageIds == {"m1", "m2"}

(* Texts that make a frame alone, with the next one, or never. *)
ChunkTexts == {<<"Q", "q">>, <<"Q", "a">>, <<"q">>}

(* Chunk frames as a sender numbers them: chunkIndex below totalChunks.    *)
(* Two frames of one messageId may disagree on totalChunks.                *)
ChunkDatas ==
    {cd \in [messageId : MessageIds, chunkIndex : 0..MaxIndex,
             totalChunks : 1..MaxTotal, chunk : ChunkTexts,
             originalType : {"request"}] : cd.chunkIndex < cd.totalChunks}

InitAsm ==
    /\ SplitIdle
    /\ FeedIdle
    /\ chunks = <<>>
    /\ completed = NotCalled
    /\ now = EpochStart
    /\ FwdIdle

(* The entry receiveChunk works on, after the slot is written. *)
EntryAfter(table, chunkData, t) ==
    IF chunkData.messageId \in Ids(table)
    THEN LET e == table[PosOf(table, chunkData.messageId)]
         IN  [totalChunks |-> e.totalChunks,
              indices |-> DOMAIN e.chunks.slot \cup {chunkData.chunkIndex},
              receivedChunks |-> e.receivedChunks + 1]
    ELSE [totalChunks |-> chunkData.totalChunks,
          indices |-> {chunkData.chunkIndex},
          receivedChunks |-> 1]

Arrive(chunkData) ==
    /\ \E doCleanup \in BOOLEAN :
         LET swept == IF doCleanup
                      THEN cleanup(chunks, now, CLEANUP_MAX_AGE, CLEANUP_MAX_ENTRIES).table
                      ELSE chunks
             after == EntryAfter(swept, chunkData, now)
         IN  /\ after.receivedChunks <= MaxReceived
             /\ \E r \in {receiveChunk(chunks, chunkData, doCleanup, now)} :
                   /\ chunks' = r.table
                   /\ result' = r.result
             /\ completed' =
                  IF chunkData.messageId \in Ids(chunks') THEN NotCalled
                  ELSE [called |-> TRUE,
                        messageId |-> chunkData.messageId,
                        totalChunks |-> after.totalChunks,
                        indices |-> after.indices,
                        delivered |-> result' # Null]
    /\ UNCHANGED <<splitVars, frame, outbox, fed, inOrder, earlier, feedStart, now,
                   fwdVars>>

TickAsm ==
    /\ now < EpochStart + MaxTicks * StepMs
    /\ now' = now + StepMs
    /\ UNCHANGED <<splitVars, feedVars, chunks, completed, fwdVars>>

NextAsm ==
    \/ \E chunkData \in ChunkDatas : Arrive(chunkData)
    \/ TickAsm

SpecAsm == InitAsm /\ [][NextAsm]_vars

---------------------------------------------------------------------------
(* SpecBreaker: recordError, recordSuccess and isCircuitBreakerOpen called *)
(* in any order while the clock advances.                                  *)

InitBreaker ==
    /\ SplitIdle
    /\ FeedIdle
    /\ chunks = <<>>
    /\ completed = {}
    /\ now = EpochStart
    /\ FwdIdle

BreakerRest ==
    /\ UNCHANGED <<websocket, healthCheckCache, maxRetriesOption, req, cacheLog, session>>
    /\ UNCHANGED chunkerVars

CallRecordError ==
    /\ breaker.consecutiveErrors < MaxErrors
    /\ breaker' = recordError(breaker, now)
    /\ belief' = BeliefAfterError(belief, now)
    /\ UNCHANGED <<lastCheck, now>>
    /\ BreakerRest

CallRecordSuccess ==
    /\ breaker' = recordSuccess(breaker)
    /\ belief' = NoErrors
    /\ UNCHANGED <<lastCheck, now>>
    /\ BreakerRest

CallIsCircuitBreakerOpen ==
    /\ \E check \in {isCircuitBreakerOpen(breaker, now)} :
          /\ breaker' = check.after
          /\ lastCheck' = [called |-> TRUE, open |-> check.open,
                           counted |-> CountsOpen(belief, now),
                           expired |-> CountsExpired(belief, now)]
    /\ belief' = BeliefAfterCheck(belief, now)
    /\ UNCHANGED now
    /\ BreakerRest

TickBreaker ==
    /\ now < EpochStart + MaxTicks * StepMs
    /\ now' = now + StepMs
    /\ UNCHANGED <<breaker, belief, lastCheck>>
    /\ BreakerRest

NextBreaker ==
    \/ CallRecordError
    \/ CallRecordSuccess
    \/ CallIsCircuitBreakerOpen
    \/ TickBreaker

SpecBreaker == InitBreaker /\ [][NextBreaker]_vars

---------------------------------------------------------------------------
(* SpecFwd: request frames arrive at a tunnel whose origin answers, fails  *)
(* or stays silent, while the socket drops and reconnects and the clock    *)
(* advances.                                                               *)

(* HEAD and GET answers of the origin, one per class the code tells apart. *)
Statuses == {200, 404, 500}

(* Answers of the origin to a forwarded request. *)
OriginStatuses == {200, 503}

InitFwd ==
    /\ SplitIdle
    /\ FeedIdle
    /\ chunks = <<>>
    /\ completed = {}
    /\ now = EpochStart
    /\ websocket = "null"
    /\ breaker = ClosedBreaker
    /\ healthCheckCache = NoCache
    /\ maxRetriesOption \in MaxRetriesOptions
    /\ req = [r \in RequestIds |-> IdleRequest]
    /\ belief = NoErrors
    /\ lastCheck = NotCalled
    /\ cacheLog = NotCalled
    /\ session = IdleSession

World(r) ==
    [q |-> req[r], b |-> breaker, h |-> healthCheckCache, g |-> belief, c |-> cacheLog]

Becomes(r, w) ==
    /\ req' = [req EXCEPT ![r] = w.q]
    /\ breaker' = w.b
    /\ healthCheckCache' = w.h
    /\ belief' = w.g
    /\ cacheLog' = w.c
    /\ UNCHANGED <<websocket, maxRetriesOption, lastCheck, now, session>>
    /\ UNCHANGED chunkerVars

Finished(w) == [w EXCEPT !.q.pc = "done"]

(* connectWebSocket: new WebSocket(wsUrl) *)
connectWebSocket ==
    /\ websocket = "null"
    /\ websocket' = "CONNECTING"
    /\ UNCHANGED <<breaker, healthCheckCache, maxRetriesOption, req, belief, lastCheck, cacheLog, session, now>>
    /\ UNCHANGED chunkerVars

(* websocket.on('open') *)
WsOpen ==
    /\ websocket = "CONNECTING"
    /\ websocket' = "OPEN"
    /\ UNCHANGED <<breaker, healthCheckCache, maxRetriesOption, req, belief, lastCheck, cacheLog, session, now>>
    /\ UNCHANGED chunkerVars

(* websocket.on('close'): this.websocket = null.  A request whose forwarder *)
(* has not settled has seen the socket go.                                 *)
WsClose ==
    /\ websocket # "null"
    /\ websocket' = "null"
    /\ req' = [r \in RequestIds |->
                 IF req[r].pc \notin {"idle", "done"} /\ ~req[r].settled
                 THEN [req[r] EXCEPT !.wsStayed = FALSE] ELSE req[r]]
    /\ UNCHANGED <<breaker, healthCheckCache, maxRetriesOption, belief, lastCheck, cacheLog, session, now>>
    /\ UNCHANGED chunkerVars

(* A socket that is open hands its frames to the message handler, whether  *)
(* this.websocket still holds it or not.                                   *)
Delivering == websocket = "OPEN" \/ session.straySockets["OPEN"] > 0

(* websocket.on('message') with a request frame: handleProxyRequest up to  *)
(* its first suspension.                                                   *)
(* handleProxyRequest up to its first await: the world afterwards *)
handleProxyRequest(isSSE, certsReadable) ==
    LET check == isCircuitBreakerOpen(breaker, now)
        counted == CountsOpen(belief, now)
        q == [IdleRequest EXCEPT !.isSSE = isSSE,
                                 !.gate = IF counted THEN "open" ELSE "closed",
                                 !.errorsBefore = check.after.consecutiveErrors]
        w == [q |-> q, b |-> check.after, h |-> healthCheckCache,
              g |-> BeliefAfterCheck(belief, now), c |-> cacheLog]
    IN  IF check.open THEN Finished(Send(w, "response", BreakerResponse))
        ELSE IF isSSE
             THEN IF certsReadable
                  THEN [w EXCEPT !.q.pc = "sseDial", !.q.dialled = TRUE,
                                 !.q.dials = @ + 1]
                  ELSE Finished(Reject(w, CertificateError))
             ELSE Forward(w, 0, certsReadable)

Receive(r, isSSE, certsReadable) ==
    /\ Delivering
    /\ req[r].pc = "idle"
    /\ Becomes(r, handleProxyRequest(isSSE, certsReadable))

(* performHealthCheck: the response callback of the HEAD request *)
ProbeResponse(r, status, certsReadable) ==
    /\ req[r].mainInFlight
    /\ LET w == World(r)
           onRoot == w.q.checkPath = "/"
       IN  Becomes(r,
             IF status >= 200 /\ status < 300
             THEN LET found == [w EXCEPT !.h.healthPath = w.q.checkPath]
                  IN  ResolveProbe(IF onRoot THEN NotesSlash(found, status, TRUE) ELSE found,
                                   TRUE, certsReadable)
             ELSE FallBackOrFail(IF onRoot THEN NotesSlash(w, status, FALSE) ELSE w,
                                 certsReadable))

(* performHealthCheck: req.on('error') *)
ProbeError(r, certsReadable) ==
    /\ req[r].mainInFlight
    /\ Becomes(r, FallBackOrFail(World(r), certsReadable))

(* performHealthCheck: req.on('timeout'); req.destroy() may make the       *)
(* request emit 'error' (socket hang up), which runs the error handler.    *)
ProbeTimeout(r, hangUp, certsReadable) ==
    /\ req[r].mainInFlight
    /\ LET first == FallBackOrFail(World(r), certsReadable)
       IN  Becomes(r, IF hangUp THEN FallBackOrFail(first, certsReadable) ELSE first)

(* One root probe of the request leaves: of the check that is waiting, or  *)
(* of an earlier check that has resolved.                                  *)
RootLeaves(r, late) ==
    IF late THEN [World(r) EXCEPT !.q.lateRoot = @ - 1]
    ELSE [World(r) EXCEPT !.q.rootInFlight = @ - 1]

RootPending(r, late) ==
    IF late THEN req[r].lateRoot > 0 ELSE req[r].rootInFlight > 0

(* tryRootPath: the response callback *)
RootResponse(r, late, status, certsReadable) ==
    /\ RootPending(r, late)
    /\ LET w == RootLeaves(r, late)
       IN  Becomes(r,
             IF status >= 200 /\ status < 500
             THEN LET found == [w EXCEPT !.h.healthPath = "/"]
                  IN  IF late THEN found
                      ELSE ResolveProbe(NotesSlash(found, status, TRUE), TRUE, certsReadable)
             ELSE IF late THEN w
                  ELSE ResolveProbe(NotesSlash(w, status, FALSE), FALSE, certsReadable))

(* tryRootPath: fallbackReq.on('error') *)
RootError(r, late, certsReadable) ==
    /\ RootPending(r, late)
    /\ LET w == RootLeaves(r, late)
       IN  Becomes(r, IF late THEN w
                      ELSE ResolveProbe(NotesSlash(w, 0, FALSE), FALSE, certsReadable))

(* tryRootPath: fallbackReq.on('timeout'); an 'error' after destroy()      *)
(* resolves the resolved promise again.                                    *)
RootTimeout(r, late, certsReadable) ==
    /\ RootPending(r, late)
    /\ LET w == RootLeaves(r, late)
       IN  Becomes(r, IF late THEN w
                      ELSE ResolveProbe(NotesSlash(w, 0, FALSE), FALSE, certsReadable))

(* The dial of the request ends: with a timeout, a refused connection or   *)
(* in another way.                                                         *)
Ended(w, how) ==
    [w EXCEPT !.q.attemptEnds =
        @ \cup {IF how \in {"timeout", "ECONNREFUSED"} THEN how ELSE "other"}]

(* forwardToLocalServer: res.on('end') *)
DialResponse(r, status) ==
    /\ req[r].pc = "dial"
    /\ Becomes(r, Finished(Resolve(Ended(World(r), "response"), status)))

(* forwardToLocalServer: req.on('error') with error.message naming words *)
OnDialError(w, words) ==
    IF w.q.retryCount < maxRetries
       /\ words \cap (ConnectionErrors \cup NetworkErrors) # {}
    THEN [w EXCEPT !.q.pc = "backoff"]
    ELSE Reject(w, words)

DialError(r, code) ==
    /\ req[r].pc = "dial"
    /\ LET after == OnDialError(Ended(World(r), code), {code})
       IN  Becomes(r, IF after.q.pc = "backoff" THEN after ELSE Finished(after))

(* forwardToLocalServer: req.on('timeout'); req.destroy() may make the     *)
(* request emit 'error' (socket hang up), which runs the error handler.    *)
DialTimeout(r, hangUp) ==
    /\ req[r].pc = "dial"
    /\ LET w == Ended(World(r), "timeout")
           retrying == w.q.retryCount < maxRetries
           timedOut == IF retrying THEN [w EXCEPT !.q.pc = "backoff"]
                       ELSE Finished(Reject(w, TimeoutMessage))
       IN  Becomes(r, IF hangUp
                      THEN [OnDialError(timedOut, SocketHangUp) EXCEPT !.q.pc = timedOut.q.pc]
                      ELSE timedOut)

(* The setTimeout callback of a retry *)
RetryFire(r, certsReadable) ==
    /\ req[r].pc = "backoff"
    /\ Becomes(r, Forward(World(r), req[r].retryCount + 1, certsReadable))

(* handleSSERequest: the response callback *)
SseResponse(r) ==
    /\ req[r].pc = "sseDial"
    /\ Becomes(r, [Send(World(r), "sse-start", NoResponse) EXCEPT !.q.pc = "sseStream"])

(* handleSSERequest: res.on('data') *)
SseData(r) ==
    /\ req[r].pc = "sseStream"
    /\ req[r].sseChunks < MaxSseChunks
    /\ Becomes(r, [Send(World(r), "sse-chunk", NoResponse) EXCEPT !.q.sseChunks = @ + 1])

(* handleSSERequest: res.on('end') *)
SseEnd(r) ==
    /\ req[r].pc = "sseStream"
    /\ Becomes(r, Finished(Resolve(Send(World(r), "sse-end", NoResponse), 200)))

(* handleSSERequest: res.on('error') and req.on('error') *)
SseError(r, code) ==
    /\ req[r].pc \in {"sseDial", "sseStream"}
    /\ Becomes(r, Finished(Reject(World(r), {code})))

(* handleSSERequest: req.on('timeout') *)
SseTimeout(r) ==
    /\ req[r].pc \in {"sseDial", "sseStream"}
    /\ Becomes(r, Finished(Reject(World(r), TimeoutMessage)))

(* Date.now() advances *)
TickFwd ==
    /\ now < EpochStart + MaxFwdTicks * FwdStepMs
    /\ now' = now + FwdStepMs
    /\ UNCHANGED <<websocket, breaker, healthCheckCache, maxRetriesOption, req, belief,
                   lastCheck, cacheLog, session>>
    /\ UNCHANGED chunkerVars

(* Nothing of the request is left in the program. *)
Forget(r) ==
    /\ req[r].pc = "done"
    /\ ~req[r].mainInFlight
    /\ req[r].rootInFlight = 0
    /\ req[r].lateRoot = 0
    /\ req' = [req EXCEPT ![r] = IdleRequest]
    /\ UNCHANGED <<websocket, breaker, healthCheckCache, maxRetriesOption, belief, lastCheck, cacheLog, session, now>>
    /\ UNCHANGED chunkerVars

NextFwd ==
    \/ connectWebSocket
    \/ WsOpen
    \/ WsClose
    \/ TickFwd
    \/ \E r \in OneAtATime :
         \/ \E isSSE \in BOOLEAN, certsReadable \in BOOLEAN : Receive(r, isSSE, certsReadable)
         \/ \E status \in Statuses, certsReadable \in BOOLEAN : ProbeResponse(r, status, certsReadable)
         \/ \E certsReadable \in BOOLEAN : ProbeError(r, certsReadable)
         \/ \E hangUp \in BOOLEAN, certsReadable \in BOOLEAN : ProbeTimeout(r, hangUp, certsReadable)
         \/ \E late \in BOOLEAN, status \in Statuses, certsReadable \in BOOLEAN :
                RootResponse(r, late, status, certsReadable)
         \/ \E late \in BOOLEAN, certsReadable \in BOOLEAN : RootError(r, late, certsReadable)
         \/ \E late \in BOOLEAN, certsReadable \in BOOLEAN : RootTimeout(r, late, certsReadable)
         \/ \E status \in OriginStatuses : DialResponse(r, status)
         \/ \E code \in ErrorCodes : DialError(r, code)
         \/ \E hangUp \in BOOLEAN : DialTimeout(r, hangUp)
         \/ \E certsReadable \in BOOLEAN : RetryFire(r, certsReadable)
         \/ SseResponse(r)
         \/ SseData(r)
         \/ SseEnd(r)
         \/ \E code \in ErrorCodes : SseError(r, code)
         \/ SseTimeout(r)
         \/ Forget(r)

SpecFwd == InitFwd /\ [][NextFwd]_vars

---------------------------------------------------------------------------
(* SpecHealth: two forwarders at once consult the health cache of an       *)
(* origin that answers every forwarded request, while the probes answer,   *)
(* fail or time out and the clock advances in steps shorter than the probe *)
(* timeout.                                                                *)

InitHealth ==
    /\ SplitIdle
    /\ FeedIdle
    /\ chunks = <<>>
    /\ completed = {}
    /\ now = EpochStart
    /\ websocket = "OPEN"
    /\ breaker = ClosedBreaker
    /\ healthCheckCache = NoCache
    /\ maxRetriesOption = 0
    /\ req = [r \in RequestIds |-> IdleRequest]
    /\ belief = NoErrors
    /\ lastCheck = NotCalled
    /\ cacheLog = Watching
    /\ session = IdleSession

(* const timeout = 3000 of performHealthCheck *)
probeTimeout == 3000

(* Date.now() advances; a probe on its first request has answered, failed  *)
(* or timed out before its timeout is over.                                *)
TickHealth ==
    /\ now < EpochStart + MaxHealthTicks * HealthStepMs
    /\ \A r \in RequestIds :
          req[r].mainInFlight => now + HealthStepMs - req[r].checkNow <= probeTimeout
    /\ now' = now + HealthStepMs
    /\ UNCHANGED <<websocket, breaker, healthCheckCache, maxRetriesOption, req, belief,
                   lastCheck, cacheLog, session>>
    /\ UNCHANGED chunkerVars

NextHealth ==
    \/ TickHealth
    \/ \E r \in RequestIds :
         \/ Receive(r, FALSE, TRUE)
         \/ \E status \in Statuses : ProbeResponse(r, status, TRUE)
         \/ ProbeError(r, TRUE)
         \/ \E hangUp \in BOOLEAN : ProbeTimeout(r, hangUp, TRUE)
         \/ \E late \in BOOLEAN, status \in Statuses : RootResponse(r, late, status, TRUE)
         \/ \E late \in BOOLEAN : RootError(r, late, TRUE)
         \/ \E late \in BOOLEAN : RootTimeout(r, late, TRUE)
         \/ DialResponse(r, 200)
         \/ Forget(r)

SpecHealth == InitHealth /\ [][NextHealth]_vars

---------------------------------------------------------------------------
(* SpecOrigin: the health checks of two forwarders against a local server  *)
(* that answers HEAD /health always the same way and HEAD / always the     *)
(* same way, each with one status.                                         *)

InitOrigin ==
    /\ splitIn = NotCalled /\ splitOut = NotCalled /\ cli = NotCalled
    /\ origin \in [health : Statuses, root : Statuses]
    /\ FeedIdle
    /\ chunks = <<>>
    /\ completed = {}
    /\ now = EpochStart
    /\ websocket = "OPEN"
    /\ breaker = ClosedBreaker
    /\ healthCheckCache = NoCache
    /\ maxRetriesOption = 0
    /\ req = [r \in RequestIds |-> IdleRequest]
    /\ belief = NoErrors
    /\ lastCheck = NotCalled
    /\ cacheLog = NotCalled
    /\ session = IdleSession

(* The local server's answer to a HEAD request for the path *)
AnswerTo(path) == IF path = "/" THEN origin.root ELSE origin.health

(* performHealthCheck's request is answered *)
OriginProbeResponse(r) ==
    /\ req[r].checkPath # "null"
    /\ ProbeResponse(r, AnswerTo(req[r].checkPath), TRUE)

(* tryRootPath's request is answered *)
OriginRootResponse(r) ==
    /\ req[r].rootInFlight > 0
    /\ RootResponse(r, FALSE, AnswerTo("/"), TRUE)

NextOrigin ==
    \/ TickHealth
    \/ \E r \in RequestIds :
         \/ Receive(r, FALSE, TRUE)
         \/ OriginProbeResponse(r)
         \/ OriginRootResponse(r)
         \/ DialResponse(r, 200)
         \/ Forget(r)

SpecOrigin == InitOrigin /\ [][NextOrigin]_vars

---------------------------------------------------------------------------
(* SpecSession: open() and close() are called, the broker answers, the     *)
(* sockets open, fail and are dropped by the server, and the timers fire,  *)
(* in any order.                                                           *)

InitSession ==
    /\ SplitIdle
    /\ FeedIdle
    /\ chunks = <<>>
    /\ completed = {}
    /\ now = EpochStart
    /\ FwdIdle

(* Math.random() * 1000 added to 1000: the ends of the range *)
BaseDelays == {1000, 1999}

Conn == [s |-> session, ws |-> websocket]

Connected(c) ==
    /\ session' = c.s
    /\ websocket' = c.ws
    /\ UNCHANGED <<maxRetriesOption, req, belief, lastCheck, cacheLog, now>>
    /\ UNCHANGED <<splitVars, feedVars, completed>>

SessionRest == UNCHANGED <<breaker, healthCheckCache, chunks>>

(* open(): initTunnel() is called *)
open ==
    /\ session.opens < MaxOpens
    /\ Connected([Conn EXCEPT !.s.opens = @ + 1, !.s.registering = @ + 1])
    /\ SessionRest

(* What the broker answers to the one call of initTunnel(): a status, or  *)
(* 0 when the call fails without one.                                      *)
BrokerStatuses == {0, 200, 201, 500}

Any2xx(status) == status >= 200 /\ status < 300

(* initTunnel() returns the tunnel information: axios resolves for a 2xx   *)
(* status, and any status but 200 throws (tunnel.ts 120-122).              *)
initTunnelResolves(status) == Any2xx(status) /\ status = 200

(* open(): the then-callback of initTunnel() *)
Registered(status) ==
    /\ session.registering > 0
    /\ initTunnelResolves(status)
    /\ LET c == [Conn EXCEPT !.s.registering = @ - 1, !.s.tunnelInfo = "info"]
       IN  Connected(IF c.s.closed THEN c ELSE [c EXCEPT !.s.starting = @ + 1])
    /\ SessionRest

(* open(): the catch-callback of initTunnel() *)
RegistrationFailed(status) ==
    /\ session.registering > 0
    /\ ~initTunnelResolves(status)
    /\ Connected([Conn EXCEPT !.s.registering = @ - 1, !.s.rejects = @ + 1])
    /\ SessionRest

(* open(): the 10 ms timer fires *)
StartFire ==
    /\ session.starting > 0
    /\ LET c == [Conn EXCEPT !.s.starting = @ - 1]
       IN  Connected(IF ~c.s.closed THEN ConnectWebSocket(c) ELSE c)
    /\ SessionRest

(* A connecting socket, the one this.websocket holds or another, opens. *)
SocketOpen(held) ==
    /\ session.urlEvents < MaxWsOpens
    /\ IF held THEN websocket = "CONNECTING" ELSE session.straySockets["CONNECTING"] > 0
    /\ Connected(OnOpen(
          IF held THEN [Conn EXCEPT !.ws = "OPEN"]
          ELSE [Conn EXCEPT !.s.straySockets["CONNECTING"] = @ - 1,
                            !.s.straySockets["OPEN"] = @ + 1]))
    /\ SessionRest

(* A socket in the given state, the one this.websocket holds or another,   *)
(* closes: the connection failed, or the server or the client ended it.    *)
SocketClose(held, state, baseDelay) ==
    /\ IF held THEN websocket = state ELSE session.straySockets[state] > 0
    /\ Connected(OnClose(
          IF held THEN [Conn EXCEPT !.ws = "null"]
          ELSE [Conn EXCEPT !.s.straySockets[state] = @ - 1],
          baseDelay))
    /\ SessionRest

(* websocket.on('error'): the error is emitted again *)
SocketError ==
    /\ \/ websocket # "null"
       \/ \E state \in ReadyStates : session.straySockets[state] > 0
    /\ Connected([Conn EXCEPT !.s.socketError = TRUE])
    /\ SessionRest

(* A reconnect timer fires: the one this.reconnectTimeout holds or another *)
ReconnectFire(held) ==
    /\ IF held THEN session.reconnectTimeout = "pending" ELSE session.strayTimeouts > 0
    /\ Connected(ConnectWebSocket(
          IF held THEN [Conn EXCEPT !.s.reconnectTimeout = "fired"]
          ELSE [Conn EXCEPT !.s.strayTimeouts = @ - 1]))
    /\ SessionRest

(* close() *)
close ==
    /\ session.closes < MaxCloses
    /\ Connected(Close(Conn))
    /\ breaker' = resetCircuitBreaker(breaker)
    /\ healthCheckCache' = NoCache
    /\ chunks' = <<>>

(* close(): the 0 ms timer fires *)
DeferredClose ==
    /\ session.closing > 0
    /\ LET c == [Conn EXCEPT !.s.closing = @ - 1]
       IN  Connected(IF c.ws \in {"OPEN", "CONNECTING"} THEN [c EXCEPT !.ws = "CLOSING"] ELSE c)
    /\ SessionRest

NextSession ==
    \/ open
    \/ \E status \in BrokerStatuses : Registered(status)
    \/ \E status \in BrokerStatuses : RegistrationFailed(status)
    \/ StartFire
    \/ \E held \in BOOLEAN : SocketOpen(held)
    \/ \E held \in BOOLEAN, state \in ReadyStates, baseDelay \in BaseDelays :
          SocketClose(held, state, baseDelay)
    \/ SocketError
    \/ \E held \in BOOLEAN : ReconnectFire(held)
    \/ close
    \/ DeferredClose

SpecSession == InitSession /\ [][NextSession]_vars

---------------------------------------------------------------------------
(* SpecShutdown: a Tunnel whose socket is open gets chunk frames, and      *)
(* close() and gracefulShutdown() are called, while the clock advances.    *)

(* The Tunnel after open(), the registration and the socket's open event. *)
OpenSession ==
    [IdleSession EXCEPT !.tunnelInfo = "info", !.opens = 1, !.urlEvents = 1,
                        !.keepAliveInterval = "armed"]

InitShutdown ==
    /\ SplitIdle
    /\ FeedIdle
    /\ chunks = <<>>
    /\ completed = NotCalled
    /\ now = EpochStart
    /\ websocket = "OPEN"
    /\ breaker = ClosedBreaker
    /\ healthCheckCache = NoCache
    /\ maxRetriesOption = 1
    /\ req = [r \in RequestIds |-> IdleRequest]
    /\ belief = NoErrors
    /\ lastCheck = NotCalled
    /\ cacheLog = NotCalled
    /\ session = OpenSession

(* const maxWait = 5000 of gracefulShutdown *)
maxWait == 5000

(* Chunk frames of one message of two chunks. *)
ShutdownChunks ==
    {cd \in ChunkDatas : /\ cd.messageId = TheMessageId
                         /\ cd.totalChunks = MaxTotal
                         /\ cd.chunk = <<"Q", "a">>}

(* websocket.on('message') with a chunk frame *)
ArriveFrame(chunkData) ==
    /\ Delivering
    /\ Arrive(chunkData)

WaitsForChunks(table, startTime, t) == Len(table) > 0

(* messageChunker.getStats().activeChunks > 0 && Date.now() - startTime < maxWait *)
StillWaiting(table, startTime, t) == Len(table) > 0 /\ t - startTime < maxWait

(* gracefulShutdown() up to its first await, or to its end when no         *)
(* assembly is active.  The call comes early enough for the clock to pass  *)
(* its wait.                                                               *)
gracefulShutdown ==
    /\ session.shutdown = "none"
    /\ now + maxWait <= EpochStart + MaxShutdownTicks * ShutdownStepMs
    /\ LET flagged == [Conn EXCEPT !.s.closed = TRUE, !.s.startTime = now]
       IN  IF Len(chunks) > 0 /\ StillWaiting(chunks, now, now)
           THEN /\ Connected([flagged EXCEPT !.s.shutdown = "waiting"])
                /\ UNCHANGED chunks
           ELSE /\ Connected([Close(flagged) EXCEPT !.s.shutdown = "resolved"])
                /\ chunks' = <<>>
    /\ breaker' = resetCircuitBreaker(breaker)
    /\ healthCheckCache' = NoCache

(* gracefulShutdown(): a 100 ms timer of the loop fires and the loop ends *)
ShutdownPoll ==
    /\ session.shutdown = "waiting"
    /\ ~StillWaiting(chunks, session.startTime, now)
    /\ Connected([Close(Conn) EXCEPT !.s.shutdown = "resolved"])
    /\ breaker' = resetCircuitBreaker(breaker)
    /\ healthCheckCache' = NoCache
    /\ chunks' = <<>>

(* Date.now() advances by one step.  The 100 ms timers of the loop of      *)
(* gracefulShutdown() fire many times in a step: the loop has ended by the *)
(* end of the step when its condition is false then.                       *)
TickShutdown ==
    /\ now < EpochStart + MaxShutdownTicks * ShutdownStepMs
    /\ now' = now + ShutdownStepMs
    /\ IF session.shutdown = "waiting" /\ ~StillWaiting(chunks, session.startTime, now')
       THEN LET c == [Close(Conn) EXCEPT !.s.shutdown = "resolved"]
            IN  /\ session' = c.s
                /\ websocket' = c.ws
                /\ breaker' = resetCircuitBreaker(breaker)
                /\ healthCheckCache' = NoCache
                /\ chunks' = <<>>
       ELSE UNCHANGED <<session, websocket, breaker, healthCheckCache, chunks>>
    /\ UNCHANGED <<maxRetriesOption, req, belief, lastCheck, cacheLog>>
    /\ UNCHANGED <<splitVars, feedVars, completed>>

NextShutdown ==
    \/ close
    \/ DeferredClose
    \/ gracefulShutdown
    \/ ShutdownPoll
    \/ TickShutdown
    \/ \E chunkData \in ShutdownChunks : ArriveFrame(chunkData)

SpecShutdown == InitShutdown /\ [][NextShutdown]_vars

(* SpecTunnels: a second Tunnel of the same process receives chunk frames  *)
(* while the first is used and shut down.  Both call the messageChunker    *)
(* that chunk-utils.ts exports; the message of the second Tunnel has its   *)
(* own id.                                                                 *)
OtherMessageId == "m2"

OtherChunks ==
    {cd \in ChunkDatas : /\ cd.messageId = OtherMessageId
                         /\ cd.totalChunks = MaxTotal
                         /\ cd.chunk = <<"Q", "a">>}

(* websocket.on('message') of the second Tunnel with a chunk frame; its    *)
(* socket is open.                                                         *)
OtherArriveFrame(chunkData) ==
    /\ chunkData.messageId = OtherMessageId
    /\ Arrive(chunkData)

NextTunnels ==
    \/ close
    \/ DeferredClose
    \/ gracefulShutdown
    \/ ShutdownPoll
    \/ TickShutdown
    \/ \E chunkData \in ShutdownChunks : ArriveFrame(chunkData)
    \/ \E chunkData \in OtherChunks : OtherArriveFrame(chunkData)

SpecTunnels == InitShutdown /\ [][NextTunnels]_vars

(* The timers of the event loop fire and the clock does not stop. *)
SpecShutdownFair ==
    SpecShutdown /\ WF_vars(ShutdownPoll) /\ WF_vars(TickShutdown)

---------------------------------------------------------------------------
(* SpecCancel: a Tunnel whose socket is open gets request frames, its      *)
(* origin refuses or answers, and close() is called.                       *)

NextCancel ==
    \/ close
    \/ DeferredClose
    \/ \E r \in OneAtATime :
         \/ Receive(r, FALSE, TRUE)
         \/ ProbeResponse(r, 200, TRUE)
         \/ DialError(r, "ECONNREFUSED")
         \/ DialResponse(r, 200)
         \/ RetryFire(r, TRUE)
         \/ Forget(r)

SpecCancel == InitShutdown /\ [][NextCancel]_vars

---------------------------------------------------------------------------
(* SpecBreakerEvents: requests end in errors and successes in any order,   *)
(* the breaker is checked, close() and gracefulShutdown() are called and   *)
(* the clock advances; the breaker events emitted are noted in order.      *)

BreakerEvents == IF cacheLog = NotCalled THEN <<>> ELSE cacheLog.events

Emitted(emits, event) ==
    /\ emits => Len(BreakerEvents) < MaxBreakerEvents
    /\ cacheLog' = IF emits THEN [called |-> TRUE, events |-> Append(BreakerEvents, event)]
                   ELSE cacheLog

BreakerEventsRest ==
    /\ UNCHANGED <<websocket, healthCheckCache, maxRetriesOption, req, session, lastCheck>>
    /\ UNCHANGED chunkerVars

(* handleProxyRequest: the catch branch calls recordError() *)
RequestFailed ==
    /\ breaker.consecutiveErrors < MaxErrors
    /\ breaker' = recordError(breaker, now)
    /\ Emitted(recordErrorEmits(breaker), "circuit-breaker-open")
    /\ belief' = BeliefAfterError(belief, now)
    /\ UNCHANGED now
    /\ BreakerEventsRest

(* handleProxyRequest: the try branch calls recordSuccess() *)
RequestSucceeded ==
    /\ breaker' = recordSuccess(breaker)
    /\ Emitted((breaker.consecutiveErrors > 0 \/ breaker.isCircuitOpen) /\ resetEmits(breaker),
               "circuit-breaker-closed")
    /\ belief' = NoErrors
    /\ UNCHANGED now
    /\ BreakerEventsRest

(* handleProxyRequest: isCircuitBreakerOpen(), which resets after the cooldown *)
CooldownCheck ==
    /\ breaker' = isCircuitBreakerOpen(breaker, now).after
    /\ Emitted(breaker.isCircuitOpen /\ CooldownPassed(breaker, now) /\ resetEmits(breaker),
               "circuit-breaker-closed")
    /\ belief' = BeliefAfterCheck(belief, now)
    /\ UNCHANGED now
    /\ BreakerEventsRest

(* close() and gracefulShutdown(): resetCircuitBreaker() *)
ResetOnClose ==
    /\ breaker' = resetCircuitBreaker(breaker)
    /\ Emitted(resetEmits(breaker), "circuit-breaker-closed")
    /\ belief' = NoErrors
    /\ UNCHANGED now
    /\ BreakerEventsRest

TickBreakerEvents ==
    /\ now < EpochStart + MaxTicks * StepMs
    /\ now' = now + StepMs
    /\ UNCHANGED <<breaker, belief, cacheLog>>
    /\ BreakerEventsRest

NextBreakerEvents ==
    \/ RequestFailed
    \/ RequestSucceeded
    \/ CooldownCheck
    \/ ResetOnClose
    \/ TickBreakerEvents

SpecBreakerEvents == InitBreaker /\ [][NextBreakerEvents]_vars

---------------------------------------------------------------------------
(* SpecReassemble: a Tunnel whose socket is open gets chunk frames of two  *)
(* messages, with texts that parse and texts that do not, and forwards     *)
(* the requests they make.                                                 *)

AnyResult(message) == TRUE

(* if (reconstructedMessage) { if (reconstructedMessage.type === 'request') *)
IsRequest(message) == message # Null /\ message.type = "request"

(* The messageIds whose assembly was dropped because it did not parse. *)
Dropped == IF completed = NotCalled THEN {} ELSE completed.dropped

(* websocket.on('message') with a chunk frame: receiveChunk, and           *)
(* handleProxyRequest for the request it returns.  What the call did to    *)
(* the assembly is noted.                                                  *)
ChunkArrives(r, chunkData, certsReadable) ==
    /\ Delivering
    /\ \E doCleanup \in BOOLEAN :
         LET swept == IF doCleanup
                      THEN cleanup(chunks, now, CLEANUP_MAX_AGE, CLEANUP_MAX_ENTRIES).table
                      ELSE chunks
             after == EntryAfter(swept, chunkData, now)
             rc == receiveChunk(chunks, chunkData, doCleanup, now)
             whole == after.receivedChunks = chunkData.totalChunks
         IN  /\ after.receivedChunks <= MaxReceived
             /\ chunks' = rc.table
             /\ result' = rc.result
             /\ completed' = [called |-> TRUE,
                              messageId |-> chunkData.messageId,
                              whole |-> whole,
                              delivered |-> rc.result # Null,
                              dropped |-> IF whole /\ rc.result = Null
                                          THEN Dropped \cup {chunkData.messageId}
                                          ELSE Dropped]
             /\ IF IsRequest(rc.result)
                THEN /\ req[r].pc = "idle"
                     /\ LET w == handleProxyRequest(FALSE, certsReadable)
                        IN  /\ req' = [req EXCEPT ![r] = w.q]
                            /\ breaker' = w.b
                            /\ healthCheckCache' = w.h
                            /\ belief' = w.g
                            /\ cacheLog' = w.c
                ELSE UNCHANGED <<req, breaker, healthCheckCache, belief, cacheLog>>
    /\ UNCHANGED <<websocket, maxRetriesOption, lastCheck, now, session>>
    /\ UNCHANGED <<splitVars, frame, outbox, fed, inOrder, earlier, feedStart>>

(* The chunks of two messages: those of m1 never join to a frame, those of *)
(* m2 do when each comes once.                                             *)
Part(messageId, chunkIndex) ==
    IF messageId = TheMessageId THEN <<"q">>
    ELSE IF chunkIndex = 0 THEN <<"Q", "a">>
    ELSE IF chunkIndex = MaxTotal - 1 THEN <<"q">>
    ELSE <<"a">>

ReassembleChunks ==
    {[messageId |-> id, chunkIndex |-> i, totalChunks |-> MaxTotal,
      chunk |-> Part(id, i), originalType |-> "request"] :
        id \in MessageIds, i \in 0..(MaxTotal - 1)}

NextReassemble ==
    \/ \E r \in OneAtATime, chunkData \in ReassembleChunks :
          ChunkArrives(r, chunkData, TRUE)
    \/ \E r \in OneAtATime :
         \/ ProbeResponse(r, 200, TRUE)
         \/ DialResponse(r, 200)
         \/ Forget(r)

SpecReassemble == InitShutdown /\ [][NextReassemble]_vars

---------------------------------------------------------------------------
(* The command line lr, bin/lr.ts: the check of --subdomain (33-43) and    *)
(* the start of the tunnel (139-152, 254-263).                             *)

Lower == {"a", "b", "c", "d", "e", "f", "g", "h", "i", "j", "k", "l", "m",
          "n", "o", "p", "q", "r", "s", "t", "u", "v", "w", "x", "y", "z"}
Upper == {"A", "B", "C", "D", "E", "F", "G", "H", "I", "J", "K", "L", "M",
          "N", "O", "P", "Q", "R", "S", "T", "U", "V", "W", "X", "Y", "Z"}
Digits == {"0", "1", "2", "3", "4", "5", "6", "7", "8", "9"}

(* /^[a-zA-Z0-9]+$/.test(subdomain) *)
OneOrMoreAlnum(subdomain) ==
    /\ Len(subdomain) >= 1
    /\ \A i \in 1..Len(subdomain) : subdomain[i] \in Lower \cup Upper \cup Digits

SubdomainLength == 10

(* A string is truthy unless it is empty. *)
Truthy(str) == Len(str) > 0

(* coerce of the option s throws *)
coerceThrows(subdomain) ==
    Truthy(subdomain)
        /\ (~OneOrMoreAlnum(subdomain) \/ Len(subdomain) # SubdomainLength)

SubdomainDiagnostic == "Subdomain must be alphanumeric and exactly 10 characters"

(* The values of --subdomain: a letter, a digit and a character that is    *)
(* neither, in strings up to one longer than a subdomain.                  *)
SubdomainChars == {"k", "7", "-"}
Subdomains == UNION {[1..n -> SubdomainChars] : n \in 0..MaxSubdomainLen}

InitCli ==
    /\ splitIn = NotCalled
    /\ splitOut = NotCalled
    /\ cli \in [called : {TRUE}, subdomain : Subdomains, stage : {"parsing"},
                 exit : {"none"}, stderr : {""}, endpoint : {"none"}]
    /\ origin = NotCalled
    /\ FeedIdle
    /\ chunks = <<>>
    /\ completed = NotCalled
    /\ now = EpochStart
    /\ FwdIdle

CliRest ==
    UNCHANGED <<splitIn, splitOut, origin, feedVars, chunks, completed, now, websocket,
                breaker, healthCheckCache, maxRetriesOption, req, belief, lastCheck,
                cacheLog>>

(* await args.argv: yargs applies coerce; when it throws, yargs writes the *)
(* message to stderr and exits with 1.                                     *)
ParseArgs ==
    /\ cli.stage = "parsing"
    /\ cli' = IF coerceThrows(cli.subdomain)
              THEN [cli EXCEPT !.stage = "exited", !.exit = 1,
                               !.stderr = SubdomainDiagnostic]
              ELSE [cli EXCEPT !.stage = "running"]
    /\ UNCHANGED session
    /\ CliRest

(* localrun(argv.port, {subdomain: argv.subdomain, ...}): new Tunnel and   *)
(* open(); initTunnel() asks for the subdomain when the option is truthy,  *)
(* and for a new one otherwise.                                            *)
StartTunnel ==
    /\ cli.stage = "running"
    /\ session.opens = 0
    /\ cli' = [cli EXCEPT !.endpoint = IF Truthy(cli.subdomain)
                                       THEN "POST /api/tunnels" ELSE "GET /?new"]
    /\ session' = [session EXCEPT !.opens = @ + 1, !.registering = @ + 1]
    /\ CliRest

(* The catch of the start: the failure is written and the exit code is 1 *)
StartFailed ==
    /\ cli.stage = "running"
    /\ session.rejects > 0
    /\ cli' = [cli EXCEPT !.stage = "exited", !.exit = 1,
                          !.stderr = "Failed to start tunnel"]
    /\ UNCHANGED session
    /\ CliRest

NextCli ==
    \/ ParseArgs
    \/ StartTunnel
    \/ \E status \in BrokerStatuses : Registered(status)
    \/ \E status \in BrokerStatuses : RegistrationFailed(status)
    \/ StartFailed

SpecCli == InitCli /\ [][NextCli]_vars

---------------------------------------------------------------------------
(* SpecCleanup: first chunks of a few messages arrive while the clock      *)
(* advances, and cleanup is called with small ages and caps.               *)

CleanupIds == {"m1", "m2", "m3"}

(* Frames that open an assembly, or complete it when they come again. *)
CleanupChunks ==
    [messageId : CleanupIds, chunkIndex : {0}, totalChunks : {MaxTotal},
     chunk : {<<"Q", "a">>}, originalType : {"request"}]

MaxAges == {0, StepMs}
MaxEntries == 0..MaxKept

(* messageChunker.cleanup(maxAge, maxEntries); the call, told from the     *)
(* one before by its parity, and what it returned are noted.               *)
Cleanup(maxAge, maxEntries) ==
    /\ \E r \in {cleanup(chunks, now, maxAge, maxEntries)} :
          /\ chunks' = r.table
          /\ cacheLog' = [called |-> TRUE, maxAge |-> maxAge, maxEntries |-> maxEntries,
                          removedCount |-> r.removedCount,
                          odd |-> IF cacheLog = NotCalled THEN TRUE ELSE ~cacheLog.odd]
    /\ UNCHANGED <<splitVars, feedVars, completed, now, websocket, breaker,
                   healthCheckCache, maxRetriesOption, req, belief, lastCheck, session>>

(* Date.now() advances *)
TickCleanup ==
    /\ now < EpochStart + MaxCleanupTicks * StepMs
    /\ now' = now + StepMs
    /\ UNCHANGED <<splitVars, feedVars, chunks, completed, fwdVars>>

NextCleanup ==
    \/ \E chunkData \in CleanupChunks : Arrive(chunkData)
    \/ TickCleanup
    \/ \E maxAge \in MaxAges, maxEntries \in MaxEntries : Cleanup(maxAge, maxEntries)

SpecCleanup == InitAsm /\ [][NextCleanup]_vars

---------------------------------------------------------------------------
(* SpecKeepAlive: a Tunnel whose socket is open gets ping and pong frames  *)
(* and sends its own pings, while sockets drop and come back and close()   *)
(* is called.                                                              *)

KeepAliveFrames == {"ping", "pong"}

(* websocket.on('message') with a ping or a pong frame, on any open socket *)
KeepAliveFrame(type) ==
    /\ Delivering
    /\ session.got[type] < MaxPings
    /\ Connected(OnMessage([Conn EXCEPT !.s.got[type] = @ + 1], type))
    /\ SessionRest

(* A keepalive interval fires: the one this.keepAliveInterval holds or     *)
(* another.                                                                *)
KeepAliveFire(held) ==
    /\ IF held THEN session.keepAliveInterval = "armed" ELSE session.strayIntervals > 0
    /\ session.sent.ping < MaxPings
    /\ Connected(sendPing(Conn))
    /\ SessionRest

NextKeepAlive ==
    \/ \E type \in KeepAliveFrames : KeepAliveFrame(type)
    \/ \E held \in BOOLEAN : KeepAliveFire(held)
    \/ \E held \in BOOLEAN : SocketOpen(held)
    \/ \E held \in BOOLEAN, state \in ReadyStates, baseDelay \in BaseDelays :
          SocketClose(held, state, baseDelay)
    \/ \E held \in BOOLEAN : ReconnectFire(held)
    \/ close
    \/ DeferredClose

SpecKeepAlive == InitShutdown /\ [][NextKeepAlive]_vars

---------------------------------------------------------------------------
(* Properties of chunkMessage and receiveChunk, under SpecChunk *)

Sent == outbox # NotCalled
TooBig == needsChunking(JSONstringify(frame))
AllFed == IsChunked(outbox) /\ Cardinality(fed) = Len(outbox.msgs)

(* C2: the chunks of a frame whose serialization exceeds the ceiling, fed  *)
(* to receiveChunk in index order, give null for every chunk but the last  *)
(* and the original frame on the last, after which the assembly entry is   *)
(* gone; a frame within the ceiling comes back from chunkMessage unchanged *)
(* as a single element.                                                    *)
RoundTripInOrder ==
    /\ (Sent /\ ~TooBig) => (~outbox.threw /\ outbox.msgs = <<frame>>)
    /\ (Sent /\ TooBig) => IsChunked(outbox)
    /\ (inOrder /\ fed # {}) =>
          /\ ~earlier
          /\ ~AllFed => result = Null
          /\ AllFed => (result = frame /\ chunks = <<>>)

RoundTripInOrderWitness ==
    /\ TooBig /\ AllFed /\ inOrder /\ Len(outbox.msgs) >= 3
    /\ result = frame /\ chunks = <<>>
    /\ \E i \in 1..Len(frame.body) : frame.body[i] = "H"

(* C3: for a frame whose serialization exceeds the ceiling chunkMessage    *)
(* emits only chunk frames, N >= 2 of them, all with the given messageId,  *)
(* chunkIndex 0..N-1 in emission order, totalChunks = N and originalType   *)
(* the type of the original frame.                                         *)
ChunkSequenceShape ==
    (Sent /\ TooBig) =>
        /\ ~outbox.threw
        /\ Len(outbox.msgs) >= 2
        /\ \A i \in 1..Len(outbox.msgs) :
              /\ outbox.msgs[i].type = "chunk"
              /\ outbox.msgs[i].data.messageId = TheMessageId
              /\ outbox.msgs[i].data.chunkIndex = i - 1
              /\ outbox.msgs[i].data.totalChunks = Len(outbox.msgs)
              /\ outbox.msgs[i].data.originalType = frame.type

ChunkSequenceShapeWitness ==
    Sent /\ TooBig /\ Len(outbox.msgs) >= 3 /\ frame.type = "request"

(* C4: the chunks of one message fed to receiveChunk in any order give     *)
(* null for every delivery but the last and the original frame on the      *)
(* last.                                                                   *)
OrderIndependence ==
    fed # {} =>
        /\ ~earlier
        /\ ~AllFed => result = Null
        /\ AllFed => result = frame

OrderIndependenceWitness ==
    AllFed /\ ~inOrder /\ Len(outbox.msgs) >= 3 /\ result = frame

(* C6: every text message written to the WebSocket is at most              *)
(* MAX_MESSAGE_SIZE bytes long when UTF-8-encoded.                         *)
WireBytes(message) == Utf8Len(JSONstringify(message))

EveryMessageFits ==
    (Sent /\ ~outbox.threw) =>
        \A i \in 1..Len(outbox.msgs) : WireBytes(outbox.msgs[i]) <= MAX_MESSAGE_SIZE

(* C7: no boundary between two consecutive chunks falls inside a code      *)
(* point: a surrogate pair is never divided between chunk i and chunk i+1. *)
EndsWithHigh(str) == str # <<>> /\ str[Len(str)] = "H"
StartsWithLow(str) == str # <<>> /\ str[1] = "L"

NoCodePointSplit ==
    IsChunked(outbox) =>
        \A i \in 1..(Len(outbox.msgs) - 1) :
            ~(/\ EndsWithHigh(outbox.msgs[i].data.chunk)
              /\ StartsWithLow(outbox.msgs[i + 1].data.chunk))

---------------------------------------------------------------------------
(* Properties of safeStringChunk, under SpecSplit *)

(* C8: for every string and every budget B the splitter returns pieces     *)
(* that concatenate to the input and are each at most B bytes, or fails    *)
(* with an error; it never returns a piece larger than B.                  *)
SplitWithinBudget ==
    splitOut # NotCalled =>
        \/ splitOut.threw
        \/ /\ Join(splitOut.chunks) = splitIn.str
           /\ \A i \in 1..Len(splitOut.chunks) :
                  Utf8Len(splitOut.chunks[i]) <= splitIn.maxBytes

---------------------------------------------------------------------------
(* Properties of the assembly table, under SpecAsm *)

(* C5: a chunk index that arrives more than once is counted once:          *)
(* receivedChunks equals the number of distinct indices stored, and an     *)
(* assembly completes only when every index 0..totalChunks-1 has arrived.  *)
DuplicatesCountedOnce ==
    /\ \A k \in 1..Len(chunks) :
          chunks[k].receivedChunks = Cardinality(DOMAIN chunks[k].chunks.slot)
    /\ completed # NotCalled =>
          (0..(completed.totalChunks - 1)) \subseteq completed.indices

---------------------------------------------------------------------------
(* Properties of the request forwarder, under SpecFwd *)

Begun(r) == req[r].pc # "idle"

ResponseFrames(r) == Len(SelectSeq(req[r].frames, LAMBDA kind : kind = "response"))

(* C1: a request that is not an SSE request and arrives while the breaker  *)
(* is closed gets exactly one response frame: none before its forwarder    *)
(* settles, never more than one, and one once the forwarder has settled    *)
(* with the WebSocket open all the while -- whether the origin answers,    *)
(* the health gate fails, the retries run out or the error is not retried. *)
ExactlyOneResponse ==
    \A r \in RequestIds :
        (Begun(r) /\ ~req[r].isSSE /\ req[r].gate # "open") =>
            /\ ResponseFrames(r) <= 1
            /\ ~req[r].settled => ResponseFrames(r) = 0
            /\ (req[r].settled /\ req[r].wsStayed) => ResponseFrames(r) = 1

(* A timed-out attempt was torn down and rejected while its retry waits. *)
ExactlyOneResponseWitness ==
    \E r \in RequestIds :
        /\ ~req[r].isSSE
        /\ req[r].gate = "closed"
        /\ req[r].pc = "backoff"
        /\ req[r].settled
        /\ req[r].wsStayed
        /\ ResponseFrames(r) = 1

(* C10: a request that arrives while the breaker is open, within 30000 ms  *)
(* of the last of at least 5 errors in a row, is answered with one         *)
(* response of status 503, X-Error-Type circuit-breaker-open and           *)
(* Retry-After 30; the origin is not dialled and no health probe is sent.  *)
OpenBreakerRefuses ==
    \A r \in RequestIds :
        req[r].gate = "open" =>
            /\ req[r].frames = <<"response">>
            /\ req[r].response = [status |-> 503,
                                  errorType |-> "circuit-breaker-open",
                                  retryAfter |-> 30]
            /\ ~req[r].dialled
            /\ ~req[r].probed
            /\ req[r].pc = "done"

(* A request was refused exactly 30000 ms after the last error. *)
OpenBreakerRefusesWitness ==
    \E r \in RequestIds :
        /\ req[r].gate = "open"
        /\ req[r].frames = <<"response">>
        /\ now - breaker.lastErrorTime = 30000

(* C11: for every configured maxRetries >= 0, 0 included, and every run of *)
(* origin failures and timeouts, a request that is not an SSE request      *)
(* dials the origin at most maxRetries + 1 times.                          *)
DialsWithinConfigured ==
    \A r \in RequestIds :
        ~req[r].isSSE => req[r].dials <= maxRetriesOption + 1

(* C12: a request whose forwarder fails (timeout, retries used up, error   *)
(* that is not retried, failed health gate) adds exactly 1 to              *)
(* consecutiveErrors, however many attempts it made; a request that        *)
(* succeeds leaves consecutiveErrors at 0.                                 *)
OneErrorPerRequest ==
    \A r \in RequestIds :
        /\ req[r].outcome = "failure" =>
              breaker.consecutiveErrors = req[r].errorsBefore + 1
        /\ req[r].outcome = "success" => breaker.consecutiveErrors = 0

(* The second failed request in a row, after three dials. *)
OneErrorPerRequestWitness ==
    \E r \in RequestIds :
        /\ req[r].outcome = "failure"
        /\ req[r].dials = 3
        /\ req[r].errorsBefore = 1
        /\ breaker.consecutiveErrors = 2

(* C13: the error response follows the final error: a request whose       *)
(* attempts all time out ends with 504 / timeout, one whose origin refuses *)
(* every connection ends with 502 / connection-refused (the failed health  *)
(* gate gives 502 / connection-refused as well).                           *)
ErrorResponseFollowsCause ==
    \A r \in RequestIds :
        (~req[r].isSSE /\ req[r].outcome = "failure" /\ ResponseFrames(r) = 1) =>
            /\ req[r].attemptEnds = {"timeout"} =>
                  req[r].response = [status |-> 504, errorType |-> "timeout"]
            /\ req[r].attemptEnds = {"ECONNREFUSED"} =>
                  req[r].response = [status |-> 502, errorType |-> "connection-refused"]

(* C14: the health check is consulted before the first dial of a request   *)
(* that is not an SSE request, not on the retries with retry count 1 and   *)
(* 2, and again on every retry from retry count 3 on; when it reports      *)
(* unhealthy on the first attempt the request fails with 502 /             *)
(* connection-refused and the origin is not dialled.                       *)
HealthGateFirstAndLate ==
    \A r \in RequestIds :
        (Begun(r) /\ ~req[r].isSSE /\ req[r].gate = "closed") =>
            /\ req[r].consulted = {k \in 0..req[r].retryCount : k = 0 \/ k >= 3}
            /\ 0 \in req[r].unhealthyAt =>
                  /\ req[r].dials = 0
                  /\ req[r].outcome = "failure"
                  /\ ResponseFrames(r) = 1 =>
                        req[r].response = [status |-> 502,
                                           errorType |-> "connection-refused"]

(* The fourth attempt dials after the health check was consulted again. *)
HealthGateFirstAndLateWitness ==
    \E r \in RequestIds :
        /\ req[r].retryCount = 3
        /\ req[r].consulted = {0, 3}
        /\ req[r].dials = 4

---------------------------------------------------------------------------
(* Properties of the health cache, under SpecHealth *)

(* C16: a probe against "/", as the fallback or because the probe path is  *)
(* already "/", that ends with a status in 200..499 gives healthy and      *)
(* keeps "/" as the probe path, and any other end gives unhealthy; and one *)
(* probe calls the fallback at most once.                                  *)
RootProbeAcceptsUpTo499 ==
    /\ \A r \in RequestIds : req[r].rootInFlight <= 1
    /\ (cacheLog # NotCalled /\ cacheLog.slash # NotCalled) =>
          IF cacheLog.slash.status >= 200 /\ cacheLog.slash.status <= 499
          THEN cacheLog.slash.isHealthy /\ cacheLog.slash.healthPath = "/"
          ELSE ~cacheLog.slash.isHealthy

(* What is there of one Tunnel, held by a field or not. *)
ActiveSockets ==
    (IF websocket \in {"CONNECTING", "OPEN"} THEN 1 ELSE 0)
        + session.straySockets["CONNECTING"] + session.straySockets["OPEN"]

PendingReconnects ==
    (IF session.reconnectTimeout = "pending" THEN 1 ELSE 0) + session.strayTimeouts

ArmedKeepAlives ==
    (IF session.keepAliveInterval = "armed" THEN 1 ELSE 0) + session.strayIntervals

AllSockets ==
    (IF websocket # "null" THEN 1 ELSE 0)
        + session.straySockets["CONNECTING"] + session.straySockets["OPEN"]
        + session.straySockets["CLOSING"]

(* C17: after any sequence of open(), socket events, timer firings and     *)
(* close() there is at most one socket that is connecting or open, at most *)
(* one pending reconnect timer and at most one armed keepalive timer.      *)
AtMostOneOfEach ==
    /\ ActiveSockets <= 1
    /\ PendingReconnects <= 1
    /\ ArmedKeepAlives <= 1

(* The delay, in 512ths of a millisecond, is min(base * 1.5^(n-1), 30000)  *)
(* for a base in 1000..2000.                                               *)
IsBackoffDelay(delay, n) ==
    LET grown == Pow(3, n - 1) * Pow(2, 10 - n)
        most == 30000 * Pow(2, 9)
    IN  \E base \in 1000..2000 : delay = Min(base * grown, most)

(* C18: a socket that closes while the Tunnel is not closed and fewer than *)
(* 10 attempts are counted adds one to the count, n, and arms exactly one  *)
(* reconnect timer, with delay min(base * 1.5^(n-1), 30000) ms for a base  *)
(* in 1000..2000; a reconnect timer that fires makes a new connection      *)
(* attempt unless close() came first, and close() cancels the timer that   *)
(* the Tunnel holds.                                                       *)
ReconnectAfterDrop ==
    [][/\ \A held \in BOOLEAN, state \in ReadyStates, baseDelay \in BaseDelays :
            (SocketClose(held, state, baseDelay)
                /\ ~session.closed /\ session.reconnectAttempts < 10) =>
                   /\ session.reconnectAttempts' = session.reconnectAttempts + 1
                   /\ PendingReconnects' = PendingReconnects + 1
                   /\ session.reconnectTimeout' = "pending"
                   /\ IsBackoffDelay(session.delay', session.reconnectAttempts')
       /\ \A held \in BOOLEAN :
            ReconnectFire(held) =>
                   /\ PendingReconnects' = PendingReconnects - 1
                   /\ IF session.closed THEN ActiveSockets' = ActiveSockets
                      ELSE websocket' = "CONNECTING" /\ ActiveSockets' = ActiveSockets + 1
       /\ close => session.reconnectTimeout' = "null"
      ]_vars

(* A tenth reconnect timer in a row, cut to 30 s, has fired and the new    *)
(* socket is connecting.                                                   *)
ReconnectAfterDropWitness ==
    /\ ~session.closed
    /\ session.reconnectAttempts = 10
    /\ session.reconnectTimeout = "fired"
    /\ websocket = "CONNECTING"
    /\ session.delay = maxReconnectDelay * DelayUnitsPerMs

(* C19: reconnectAttempts stays within 0..10 and every socket that opens   *)
(* sets it to 0; a socket that closes with the count at 10 makes the       *)
(* Tunnel emit the error `Maximum reconnection attempts reached`, and no   *)
(* timer is armed and no socket created.                                   *)
ReconnectAttemptsBounded ==
    /\ [](session.reconnectAttempts \in 0..10)
    /\ [][/\ \A held \in BOOLEAN :
               SocketOpen(held) => session.reconnectAttempts' = 0
          /\ \A held \in BOOLEAN, state \in ReadyStates, baseDelay \in BaseDelays :
               (SocketClose(held, state, baseDelay) /\ session.reconnectAttempts = 10) =>
                  /\ session.fatalErrors' = session.fatalErrors + 1
                  /\ session.reconnectAttempts' = 10
                  /\ PendingReconnects' = PendingReconnects
                  /\ ActiveSockets' <= ActiveSockets
                  /\ websocket' = "null"
          ]_vars

(* A socket opened and was dropped, ten reconnects in a row never opened,  *)
(* and the error was emitted; nothing is left that could connect.          *)
ReconnectAttemptsBoundedWitness ==
    /\ ~session.closed
    /\ session.urlEvents > 0
    /\ session.reconnectAttempts = 10
    /\ session.fatalErrors = 1
    /\ ActiveSockets = 0
    /\ PendingReconnects = 0

(* C20: close() called twice emits exactly one `close` event in total and  *)
(* leaves no reconnect timer and no keepalive timer armed.                 *)
CloseTwiceOneEvent ==
    session.closes = 2 =>
        /\ session.closeEvents = 1
        /\ PendingReconnects = 0
        /\ ArmedKeepAlives = 0

(* C21: once close() has been called and its 0 ms timer has run, no socket *)
(* of the Tunnel is connecting or open: close was invoked on the socket    *)
(* that close() found.                                                     *)
CloseClosesSocket ==
    (session.closed /\ session.closing = 0) => ActiveSockets = 0

(* C22: once close() has been called no forwarder dials the origin and no  *)
(* health probe is sent: a retry that waited in its backoff does not fire, *)
(* and a request frame that arrives afterwards leads to neither.           *)
NoDialAfterClose ==
    [][session.closed =>
          \A r \in RequestIds :
              /\ req'[r].dials <= req[r].dials
              /\ req'[r].mainInFlight => req[r].mainInFlight]_vars

(* C23: once close() has returned the assembly table is empty, and it     *)
(* stays empty: no chunk frame delivered later creates an assembly.        *)
ClosedSessionHoldsNoChunks ==
    session.closes > 0 => chunks = <<>>

(* C24: open() makes one call to the broker; when the call fails, with no *)
(* answer or with a status other than 200, open() rejects, no second call  *)
(* is made, and no socket is created then or later for that open().        *)
FailedRegistrationStops ==
    /\ [][/\ open => session.registering' = session.registering + 1
          /\ \A status \in BrokerStatuses \ {200} : ~Registered(status)
          /\ \A status \in BrokerStatuses :
                RegistrationFailed(status) =>
                   /\ session.rejects' = session.rejects + 1
                   /\ session.registering' = session.registering - 1
                   /\ session.starting' = session.starting
                   /\ websocket' = websocket
                   /\ ActiveSockets' = ActiveSockets
         ]_vars
    /\ []((session.opens = 1 /\ session.rejects = 1) =>
             /\ session.registering = 0
             /\ session.starting = 0
             /\ session.tunnelInfo = "null"
             /\ websocket = "null"
             /\ ActiveSockets = 0)

(* The only open() of the Tunnel was rejected, and close() was called. *)
FailedRegistrationStopsWitness ==
    /\ session.opens = 1
    /\ session.rejects = 1
    /\ session.closes = 1
    /\ websocket = "null"

(* The assemblies of the Tunnel that received the message with this id *)
AssembliesOf(table, id) == SelectSeq(table, LAMBDA e : e.id = id)

(* C40: close() of one Tunnel, on its own or at the end of                 *)
(* gracefulShutdown(), leaves the assemblies of another Tunnel as they     *)
(* are, and gracefulShutdown() waits only while the Tunnel it is called on *)
(* has an assembly.                                                        *)
AssembliesArePrivate ==
    /\ [][session'.closes = session.closes + 1 =>
              AssembliesOf(chunks', OtherMessageId) =
                  AssembliesOf(chunks, OtherMessageId)]_vars
    /\ [](session.shutdown = "waiting" =>
              AssembliesOf(chunks, TheMessageId) # <<>>)

(* C39: against a local server whose answers to HEAD /health and HEAD /    *)
(* never change, every health check that goes to the network gives the     *)
(* verdict of the one before it: the verdict in the cache, once written,   *)
(* never changes.                                                          *)
SameOriginSameVerdict ==
    [][(healthCheckCache.lastCheck > 0 /\ healthCheckCache'.lastCheck > 0) =>
          healthCheckCache'.isHealthy = healthCheckCache.isHealthy]_vars

(* C38: once close() has emitted `close`, a step that is not another call  *)
(* of close() emits no `url`, `close` or `error` event.                    *)
CloseIsLastEvent ==
    [][(session.closes > 0 /\ session'.closes = session.closes) =>
          /\ session'.urlEvents = session.urlEvents
          /\ session'.closeEvents = session.closeEvents
          /\ session'.fatalErrors = session.fatalErrors
          /\ session'.socketError = session.socketError]_vars

(* C37: an sse-chunk or sse-end frame of a request is written only after   *)
(* an sse-start frame of that request was written.                         *)
SseStartComesFirst ==
    \A r \in RequestIds :
        \A i \in 1..Len(req[r].frames) :
            req[r].frames[i] \in {"sse-chunk", "sse-end"} =>
                \E j \in 1..(i - 1) : req[r].frames[j] = "sse-start"

(* C36: the breaker events alternate, starting with circuit-breaker-open:  *)
(* open is emitted by the step that takes the breaker from closed to open  *)
(* and by no other, closed only by a step that finds the breaker open.     *)
BreakerEventsAlternate ==
    /\ [](\A i \in 1..Len(BreakerEvents) :
             BreakerEvents[i] = IF i % 2 = 1 THEN "circuit-breaker-open"
                                ELSE "circuit-breaker-closed")
    /\ [][/\ (~breaker.isCircuitOpen /\ breaker'.isCircuitOpen)
               <=> BreakerEvents' = Append(BreakerEvents, "circuit-breaker-open")
          /\ BreakerEvents' = Append(BreakerEvents, "circuit-breaker-closed")
               => (breaker.isCircuitOpen /\ ~breaker'.isCircuitOpen)
          /\ BreakerEvents' = BreakerEvents
               \/ (Len(BreakerEvents') = Len(BreakerEvents) + 1
                     /\ SubSeq(BreakerEvents', 1, Len(BreakerEvents)) = BreakerEvents)]_vars

(* The breaker opened, took more errors, closed and opened again. *)
BreakerEventsAlternateWitness ==
    /\ Len(BreakerEvents) = 3
    /\ breaker.isCircuitOpen
    /\ breaker.consecutiveErrors = MaxErrors

(* C35: once close() has been called the Tunnel stays closed and no socket *)
(* is created: not by a registration that ends afterwards, not by the      *)
(* 10 ms timer of open(), not by a reconnect timer.                        *)
ClosedIsTerminal ==
    [][session.closed =>
          /\ session'.closed
          /\ AllSockets' <= AllSockets
          /\ websocket' # "CONNECTING" \/ websocket = "CONNECTING"
          /\ session'.straySockets["CONNECTING"] <= session.straySockets["CONNECTING"]]_vars

(* close() came before a socket was made; the registration and the 10 ms   *)
(* timer have ended since, and there is no socket.                         *)
ClosedIsTerminalWitness ==
    /\ session.closed
    /\ session.closes = 1
    /\ session.closeEvents = 1
    /\ session.opens = 1
    /\ session.tunnelInfo = "info"
    /\ session.registering = 0
    /\ session.starting = 0
    /\ session.reconnectAttempts = 0
    /\ session.urlEvents = 0
    /\ AllSockets = 0

(* C34: when a socket closes after close() was called, `close` is emitted, *)
(* the fatal error is not, and no reconnect timer is armed, whatever the   *)
(* count of reconnect attempts is.                                         *)
IntentionalCloseEmitsClose ==
    [][(session.closed /\ AllSockets' < AllSockets) =>
          /\ session'.closeEvents = session.closeEvents + 1
          /\ session'.fatalErrors = session.fatalErrors
          /\ PendingReconnects' <= PendingReconnects]_vars

(* C33: between the operations of the breaker, it is open exactly when    *)
(* consecutiveErrors is 5 or more.                                         *)
OpenIffThresholdReached ==
    breaker.isCircuitOpen <=> breaker.consecutiveErrors >= 5

(* The breaker stayed open through the errors after the 5th. *)
OpenIffThresholdReachedWitness ==
    /\ breaker.isCircuitOpen
    /\ breaker.consecutiveErrors = MaxErrors
    /\ lastCheck # NotCalled
    /\ lastCheck.open

(* C32: when the joined chunks of a completed assembly do not parse, the   *)
(* assembly is deleted, no request is handed on, no event is emitted and   *)
(* no frame is sent; a later complete message is still reassembled and     *)
(* forwarded.                                                              *)
ParseFailureDropsAssemblyOnly ==
    [][<<chunks, result, completed>>' # <<chunks, result, completed>> =>
          /\ (completed'.whole /\ ~completed'.delivered) =>
                /\ completed'.messageId \notin Ids(chunks')
                /\ result' = Null
                /\ UNCHANGED <<req, session, websocket, breaker, healthCheckCache>>
          /\ completed'.delivered =>
                /\ completed'.messageId \notin Ids(chunks')
                /\ \E r \in OneAtATime : req[r].pc = "idle" /\ req'[r].pc # "idle"]_vars

(* m1 did not parse and was dropped; m2 came whole afterwards and its      *)
(* request was forwarded and answered.                                     *)
ParseFailureDropsAssemblyOnlyWitness ==
    /\ completed # NotCalled
    /\ completed.delivered
    /\ completed.messageId = "m2"
    /\ "m1" \in completed.dropped
    /\ "m1" \notin Ids(chunks)
    /\ \E r \in OneAtATime : req[r].outcome = "success" /\ req[r].frames = <<"response">>
    /\ session.fatalErrors = 0
    /\ ~session.socketError

(* C31: a keepalive timer is armed only while the Tunnel holds an open     *)
(* socket and is not closed, and no reconnect timer is pending once        *)
(* close() has been called.                                                *)
TimersOnlyWhileConnected ==
    /\ ArmedKeepAlives > 0 => (websocket = "OPEN" /\ ~session.closed)
    /\ session.closed => PendingReconnects = 0

(* C30: every assembly in the table has counted no more chunks than the   *)
(* totalChunks it was created with, whatever frames arrive.                *)
ReceivedWithinTotal ==
    \A k \in 1..Len(chunks) : chunks[k].receivedChunks <= chunks[k].totalChunks

(* ^[A-Za-z0-9]{10}$ *)
MatchesSubdomainPattern(str) ==
    /\ Len(str) = SubdomainLength
    /\ \A i \in 1..Len(str) : str[i] \in Lower \cup Upper \cup Digits

(* C29: lr goes on with a --subdomain value exactly when the value matches *)
(* ^[A-Za-z0-9]{10}$; for every other string it exits with a code other    *)
(* than 0 and the diagnostic of the option, and registers no tunnel.       *)
SubdomainAcceptedIffMatches ==
    cli.stage # "parsing" =>
        IF MatchesSubdomainPattern(cli.subdomain)
        THEN cli.stderr # SubdomainDiagnostic
        ELSE /\ cli.stage = "exited"
             /\ cli.exit # 0
             /\ cli.stderr = SubdomainDiagnostic
             /\ session.opens = 0
             /\ session.tunnelInfo = "null"

(* C28: gracefulShutdown() sets the closed flag in its first step, waits  *)
(* only when assemblies are active and less than maxWait, and comes to its *)
(* end; the step that ends it is close(): the session is closed, the table *)
(* is empty and 'close' is emitted.  close() is done in its one step.      *)
GracefulShutdownTerminates ==
    /\ [](session.shutdown # "none" => session.closed)
    /\ [](session.shutdown = "waiting" => now - session.startTime < maxWait)
    /\ [][/\ (session.shutdown = "none" /\ session'.shutdown = "waiting") =>
              Len(chunks) > 0
          /\ (session.shutdown # "resolved" /\ session'.shutdown = "resolved") =>
              /\ session'.closed
              /\ chunks' = <<>>
              /\ session'.closes = session.closes + 1
              /\ session'.closeEvents = session.closeEvents + 1
          /\ session'.closes = session.closes + 1 =>
              /\ session'.closed
              /\ chunks' = <<>>
              /\ session'.closeEvents = session.closeEvents + 1]_vars
    /\ (session.shutdown = "waiting" ~> session.shutdown = "resolved")

(* gracefulShutdown() waited the whole of maxWait for an assembly *)
GracefulShutdownTerminatesWitness ==
    /\ session.shutdown = "resolved"
    /\ now - session.startTime >= maxWait
    /\ session.closes = 1
    /\ session.closeEvents = 1
    /\ chunks = <<>>

(* The entries of a table that are not older than maxAge at clock t. *)
NotOlder(table, t, maxAge) == {table[k] : k \in {j \in 1..Len(table) :
                                                   t - table[j].createdAt <= maxAge}}
Entries(table) == {table[k] : k \in 1..Len(table)}

(* C27: cleanup(maxAge, maxEntries) removes the assemblies older than      *)
(* maxAge and then, of the others, the oldest by creation until maxEntries *)
(* remain; it returns how many it removed; afterwards the table has at     *)
(* most maxEntries entries and none older than maxAge, also for maxAge 0.  *)
CleanupRemovesOldAndOldest ==
    [][cacheLog' # cacheLog =>
            LET maxAge == cacheLog'.maxAge
                maxEntries == cacheLog'.maxEntries
                fresh == NotOlder(chunks, now, maxAge)
                kept == Entries(chunks')
            IN  /\ chunks' = SelectSeq(chunks, LAMBDA e : e \in kept)
                /\ kept \subseteq fresh
                /\ Len(chunks') = Min(Cardinality(fresh), maxEntries)
                /\ \A gone \in fresh \ kept : \A e \in kept :
                      gone.createdAt <= e.createdAt
                /\ cacheLog'.removedCount = Len(chunks) - Len(chunks')
                /\ Len(chunks') <= maxEntries
                /\ \A e \in kept : now - e.createdAt <= maxAge]_vars

(* cleanup(0, 1) has removed an old assembly and the older of two new ones *)
CleanupRemovesOldAndOldestWitness ==
    /\ cacheLog # NotCalled
    /\ cacheLog.maxAge = 0
    /\ cacheLog.maxEntries = 1
    /\ cacheLog.removedCount = 2
    /\ Len(chunks) = 1

(* C26: while the socket of the session is open, a ping frame that comes  *)
(* in makes one pong frame go out and nothing else; a pong frame that      *)
(* comes in makes no frame go out and changes nothing but the count of     *)
(* the frames that came in.                                                *)
PingAnsweredPongIgnored ==
    [][/\ (websocket = "OPEN" /\ session'.got.ping = session.got.ping + 1) =>
             /\ session' = [session EXCEPT !.got.ping = @ + 1, !.sent.pong = @ + 1]
             /\ websocket' = websocket
       /\ session'.got.pong = session.got.pong + 1 =>
             /\ session' = [session EXCEPT !.got.pong = @ + 1]
             /\ websocket' = websocket
             /\ UNCHANGED <<breaker, healthCheckCache, chunks, req>>]_vars

PingAnsweredPongIgnoredWitness ==
    /\ websocket = "OPEN"
    /\ session.got.ping = MaxPings
    /\ session.sent.pong = MaxPings
    /\ session.got.pong > 0
    /\ session.sent.ping > 0

(* The frames of a stream that has handed over n chunks. *)
StreamFrames(n) == <<"sse-start">> \o [i \in 1..n |-> "sse-chunk"]

CachedVerdictValidTenSeconds ==
    (cacheLog # NotCalled /\ cacheLog.checks > 0) =>
        /\ cacheLog.fresh => ~cacheLog.network
        /\ cacheLog.stale => cacheLog.network

---------------------------------------------------------------------------
(* Properties of the circuit breaker, under SpecBreaker *)

(* C9: from a closed breaker, isCircuitBreakerOpen() answers false after   *)
(* fewer than 5 errors recorded in a row and true from the 5th on; false   *)
(* again after a recorded success, and false on the first check made more  *)
(* than 30000 ms after the last recorded error, which resets the breaker:  *)
(* errors count from 0 again.                                              *)
BreakerFollowsCount ==
    /\ breaker.isCircuitOpen <=> belief.run >= 5
    /\ breaker.consecutiveErrors = belief.run
    /\ lastCheck # NotCalled => (lastCheck.open <=> lastCheck.counted)

(* A check more than 30000 ms after the 5th error in a row answered false   *)
(* and left the breaker closed.                                            *)
BreakerFollowsCountWitness ==
    /\ lastCheck # NotCalled
    /\ lastCheck.expired
    /\ ~lastCheck.open
    /\ breaker = ClosedBreaker

============================================================================
